---- MODULE Spec2Model ----
(***************************************************************************)
(* A model of the API documentation parsing subsystem of API Playground    *)
(* (src/lib/api-parser.ts) and of the context store around it              *)
(* (lib/context-store.ts and the /api/context routes).                     *)
(*                                                                         *)
(* JavaScript values are modelled as tagged records [t, v].  A JavaScript  *)
(* string is a sequence of atoms (chunks of characters, each a TLA+        *)
(* string), so that startsWith, URL parsing and JSON decoding are computed *)
(* on the text and not looked up.  An object is the ordered sequence of    *)
(* its <<key, value>> entries (keys are JavaScript strings), which is the  *)
(* order Object.entries walks for the non-numeric keys used here.          *)
(***************************************************************************)
EXTENDS Integers, Sequences, FiniteSets, TLC

VARIABLES
    pc,        \* position of the modelled call: "start", then the name of the call made
    input,     \* the argument handed to detectDocType / parseApiDocumentation / an extractor
    opts,      \* the ParserOptions argument (Undefined when the caller passes none)
    out,       \* the completion of the call: a returned value or a raised error
    out2,      \* the completion of the companion call (the same document, options {})
    storage,   \* localStorage['api-playground-contexts'] of the browser: the ApiContextStore
    clock,     \* Date.now()
    response,  \* the last answer of the fetch or upload route
    setResponse, \* the last answer of POST /api/context/set
    cache,     \* the Map of aiResponseCache: its entries in insertion order
    used,      \* history: the keys of the cache by their last successful get or set
    session,   \* the conversation session: React state, localStorage, conversationCache
    panel,     \* the state of ConversationPanel and the snapshots its pending calls hold
    appended   \* history: the messages passed to addMessageToSession

vars == <<pc, input, opts, out, out2, storage, clock, response, setResponse,
          cache, used, session, panel, appended>>

parserVars == <<pc, input, opts, out, out2>>
\* what the parsers, the routes and the context store leave alone
idleVars == <<cache, used, session, panel, appended>>
storeVars == <<storage, clock, response, setResponse, idleVars>>

-----------------------------------------------------------------------------
(* JavaScript values *)

Undefined == [t |-> "undefined", v |-> <<>>]
Null == [t |-> "null", v |-> <<>>]
Bool(b) == [t |-> "boolean", v |-> b]
Num(n) == [t |-> "number", v |-> n]
Str(s) == [t |-> "string", v |-> s]
Arr(a) == [t |-> "array", v |-> a]
Obj(e) == [t |-> "object", v |-> e]

\* a one-atom string, the usual case for keys, tags and names
S(a) == Str(<<a>>)
K(a) == <<a>>

IsNullish(x) == x.t \in {"undefined", "null"}

\* ToBoolean
Truthy(x) ==
    CASE x.t \in {"undefined", "null"} -> FALSE
      [] x.t = "boolean" -> x.v
      [] x.t = "number" -> x.v # 0
      [] x.t = "string" -> x.v # <<>>
      [] OTHER -> TRUE

RECURSIVE Lookup(_, _, _)
Lookup(entries, key, i) ==
    IF i > Len(entries) THEN Undefined
    ELSE IF entries[i][1] = key THEN entries[i][2]
    ELSE Lookup(entries, key, i + 1)

\* x[key] for a non-nullish x: own properties of objects only; primitives and
\* arrays have none of the keys the parser reads (length is read by LengthOf)
Get(x, key) == IF x.t = "object" THEN Lookup(x.v, key, 1) ELSE Undefined

\* x.length
LengthOf(x) ==
    CASE x.t \in {"array", "string"} -> Num(Len(x.v))
      [] x.t = "object" -> Get(x, K("length"))
      [] OTHER -> Undefined

\* a > 0 for the JavaScript value a (undefined > 0 is false)
GreaterThanZero(x) == x.t = "number" /\ x.v > 0

\* completions: a value returned or an error raised
Return(x) == [raised |-> FALSE, err |-> "", val |-> x]
Throw(e) == [raised |-> TRUE, err |-> e, val |-> Undefined]

-----------------------------------------------------------------------------
(* JSON.parse, on a text given as its sequence of atoms.  The atoms "{",   *)
(* "}", "[", "]", ":", "," are punctuation, a double quote opens and       *)
(* closes a string literal whose content is the atoms in between,          *)
(* null/true/false and the decimal atoms below are literals, whitespace    *)
(* between tokens is skipped; every other atom outside a string literal is *)
(* a syntax error.  String literals of the model carry no escapes.         *)

Quote == "\""
NumberAtoms == {"0", "1", "2", "3", "5"}
NumberOf(a) == CASE a = "0" -> 0 [] a = "1" -> 1 [] a = "2" -> 2 [] a = "3" -> 3 [] OTHER -> 5

Fail == [ok |-> FALSE, val |-> Undefined, next |-> 0]
Parsed(x, n) == [ok |-> TRUE, val |-> x, next |-> n]

JsonWhitespace == {" ", "\n", "\t"}

RECURSIVE SkipWs(_, _)
SkipWs(toks, i) ==
    IF i <= Len(toks) /\ toks[i] \in JsonWhitespace THEN SkipWs(toks, i + 1) ELSE i

RECURSIVE ClosingQuote(_, _)
ClosingQuote(toks, i) ==
    IF i > Len(toks) THEN 0
    ELSE IF toks[i] = Quote THEN i
    ELSE ClosingQuote(toks, i + 1)

\* a string literal starting at the quote at position i; next is the first
\* position after it that holds no whitespace
ParseStringAt(toks, i) ==
    IF i > Len(toks) \/ toks[i] # Quote THEN Fail
    ELSE LET j == ClosingQuote(toks, i + 1)
         IN  IF j = 0 THEN Fail
             ELSE Parsed(Str(SubSeq(toks, i + 1, j - 1)), SkipWs(toks, j + 1))

RECURSIVE ParseValueAt(_, _), ParseElements(_, _, _), ParseMembers(_, _, _)

\* the value starting at position i (after whitespace)
ParseValueAt(toks, i0) ==
    LET i == SkipWs(toks, i0)
        after1 == SkipWs(toks, i + 1)
    IN  IF i > Len(toks) THEN Fail
        ELSE CASE toks[i] = "null" -> Parsed(Null, after1)
               [] toks[i] = "true" -> Parsed(Bool(TRUE), after1)
               [] toks[i] = "false" -> Parsed(Bool(FALSE), after1)
               [] toks[i] \in NumberAtoms -> Parsed(Num(NumberOf(toks[i])), after1)
               [] toks[i] = Quote -> ParseStringAt(toks, i)
               [] toks[i] = "[" ->
                    IF after1 <= Len(toks) /\ toks[after1] = "]"
                    THEN Parsed(Arr(<<>>), SkipWs(toks, after1 + 1))
                    ELSE ParseElements(toks, after1, <<>>)
               [] toks[i] = "{" ->
                    IF after1 <= Len(toks) /\ toks[after1] = "}"
                    THEN Parsed(Obj(<<>>), SkipWs(toks, after1 + 1))
                    ELSE ParseMembers(toks, after1, <<>>)
               [] OTHER -> Fail

\* the elements of an array, from the first one at position i
ParseElements(toks, i, acc) ==
    LET e == ParseValueAt(toks, i)
    IN  IF ~e.ok \/ e.next > Len(toks) THEN Fail
        ELSE IF toks[e.next] = "]"
             THEN Parsed(Arr(Append(acc, e.val)), SkipWs(toks, e.next + 1))
        ELSE IF toks[e.next] = "," THEN ParseElements(toks, e.next + 1, Append(acc, e.val))
        ELSE Fail

\* the members of an object, from the first key at position i
ParseMembers(toks, i, acc) ==
    LET k == ParseStringAt(toks, SkipWs(toks, i))
    IN  IF ~k.ok \/ k.next > Len(toks) \/ toks[k.next] # ":" THEN Fail
        ELSE LET e == ParseValueAt(toks, k.next + 1)
                 m == Append(acc, <<k.val.v, e.val>>)
             IN  IF ~e.ok \/ e.next > Len(toks) THEN Fail
                 ELSE IF toks[e.next] = "}" THEN Parsed(Obj(m), SkipWs(toks, e.next + 1))
                 ELSE IF toks[e.next] = "," THEN ParseMembers(toks, e.next + 1, m)
                 ELSE Fail

\* JSON.parse(text): the decoded value, or a SyntaxError
JSONParse(text) ==
    LET r == ParseValueAt(text.v, 1)
    IN  IF r.ok /\ r.next = Len(text.v) + 1 THEN Return(r.val) ELSE Throw("SyntaxError")

-----------------------------------------------------------------------------
(* Atoms.  A text is split into maximal runs of word characters (\w) and   *)
(* single characters of every other kind, so the character classes of the  *)
(* source's regular expressions and of the URL parser are classes of       *)
(* atoms.                                                                  *)

Whitespace == {" ", "\n", "\t"}
Punctuation ==
    Whitespace \cup
    {"/", ":", ".", "-", "{", "}", "[", "]", "<", ">", ",", "?", "#", "@", "\\", "^", "|", "%",
     "'", "=", "&", "+", "(", ")", "!", "*", ";", Quote}
\* word atoms that start with a digit (and here consist of digits only)
DigitWords == {"0", "1", "2", "3", "5", "8080", "30", "443", "3000"}

IsWord(a) == a \notin Punctuation
IsDigits(a) == a \in DigitWords
\* the first character of the atom, for the atoms whose first character the code tests
StartsWithChar(a, ch) ==
    CASE ch = "3" -> a \in {"3", "30"}
      [] OTHER -> a = ch

\* String.prototype.startsWith(ch) for a one-character ch
StartsWith(s, ch) == s.v # <<>> /\ StartsWithChar(s.v[1], ch)

-----------------------------------------------------------------------------
(* new URL(input), no base: the WHATWG URL parser on the atoms of the      *)
(* input.  Inputs of the model carry no userinfo, no percent-escapes and   *)
(* no upper-case host.                                                     *)

SpecialSchemes == {"http", "https", "ftp", "ws", "wss"}
DefaultPort(scheme) ==
    CASE scheme = "http" -> "80" [] scheme = "https" -> "443" [] scheme = "ftp" -> "21"
      [] scheme = "ws" -> "80" [] OTHER -> "443"
\* forbidden host code points (and the atoms that end the authority)
ForbiddenInHost == Whitespace \cup {"#", "/", ":", "<", ">", "?", "@", "[", "\\", "]", "^", "|", "%"}

RECURSIVE TrimLeft(_)
TrimLeft(a) == IF a # <<>> /\ Head(a) \in Whitespace THEN TrimLeft(Tail(a)) ELSE a
RECURSIVE TrimRight(_)
TrimRight(a) ==
    IF a # <<>> /\ a[Len(a)] \in Whitespace THEN TrimRight(SubSeq(a, 1, Len(a) - 1)) ELSE a
Trim(a) == TrimRight(TrimLeft(a))

\* the first position >= i holding an atom of set stop, or Len(a) + 1
RECURSIVE FindFirst(_, _, _)
FindFirst(a, i, stop) ==
    IF i > Len(a) \/ a[i] \in stop THEN i ELSE FindFirst(a, i + 1, stop)

RECURSIVE SkipSlashes(_, _)
SkipSlashes(a, i) ==
    IF i <= Len(a) /\ a[i] \in {"/", "\\"} THEN SkipSlashes(a, i + 1) ELSE i

InvalidURL == [ok |-> FALSE, origin |-> <<>>, hostname |-> <<>>, pathname |-> <<>>]

\* String(x) of the values that reach new URL here: a string is itself, every
\* other value spells a text with no scheme
ToUrlText(x) == IF x.t = "string" THEN x.v ELSE <<x.t>>

ParseURL(x) ==
    LET a == Trim(ToUrlText(x))
    IN  IF Len(a) < 2 \/ ~(IsWord(a[1]) /\ ~IsDigits(a[1])) \/ a[2] # ":" THEN InvalidURL
        ELSE IF a[1] \in SpecialSchemes THEN
            LET h == SkipSlashes(a, 3)
                e == FindFirst(a, h, {"/", "\\", "?", "#"})
                auth == SubSeq(a, h, e - 1)
                c == FindFirst(auth, 1, {":"})
                host == SubSeq(auth, 1, c - 1)
                port == SubSeq(auth, c + 1, Len(auth))
                pe == FindFirst(a, e, {"?", "#"})
                path == SubSeq(a, e, pe - 1)
                portOk == port = <<>> \/ (Len(port) = 1 /\ IsDigits(port[1]))
                hostOk == host # <<>> /\ \A i \in 1..Len(host) : host[i] \notin ForbiddenInHost
                shownPort == IF port = <<>> \/ port[1] = DefaultPort(a[1]) THEN <<>> ELSE <<":">> \o port
            IN  IF ~hostOk \/ ~portOk THEN InvalidURL
                ELSE [ok |-> TRUE,
                      origin |-> <<a[1], ":", "/", "/">> \o host \o shownPort,
                      hostname |-> host,
                      pathname |-> IF path = <<>> THEN <<"/">> ELSE path]
        ELSE
            LET pe == FindFirst(a, 3, {"?", "#"})
            IN  [ok |-> TRUE, origin |-> <<"null">>, hostname |-> <<>>,
                 pathname |-> SubSeq(a, 3, pe - 1)]

-----------------------------------------------------------------------------
(* detectDocType, src/lib/api-parser.ts:18-43 *)

V20 == Str(<<"2", ".", "0">>)

detectDocType(c) ==
    LET decoded == IF c.t = "string" THEN JSONParse(c) ELSE Return(c)
        d == decoded.val
        openapi == Get(d, K("openapi"))
        swagger == Get(d, K("swagger"))
        info == Get(d, K("info"))
        item == Get(d, K("item"))
    IN  IF decoded.raised THEN Return("html")
        \* content.openapi on null: TypeError
        ELSE IF IsNullish(d) THEN Throw("TypeError")
        \* content.openapi.startsWith is not a function
        ELSE IF Truthy(openapi) /\ openapi.t # "string" THEN Throw("TypeError")
        ELSE IF Truthy(openapi) /\ StartsWith(openapi, "3") THEN Return("openapi")
        ELSE IF Truthy(swagger) /\ swagger = V20 THEN Return("swagger")
        ELSE IF Truthy(info) /\ Truthy(item) /\ Truthy(Get(info, K("_postman_id")))
             THEN Return("postman")
        ELSE Return("unknown")

-----------------------------------------------------------------------------
(* The pieces shared by parseOpenAPI and parseSwagger *)

DefaultMaxEndpoints == 200

\* 'https://api.example.com'
DefaultBaseUrl == Str(<<"https", ":", "/", "/", "api", ".", "example", ".", "com">>)

DEFAULT_PARSER_OPTIONS ==
    Obj(<< <<K("maxEndpoints"), Num(DefaultMaxEndpoints)>>,
           <<K("includeDeprecated"), Bool(FALSE)>>,
           <<K("includeTags"), Arr(<<>>)>>,
           <<K("excludeTags"), Arr(<<>>)>> >>)

\* the default parameter value: it replaces an argument that is undefined, as a whole
OptionsOrDefault(o) == IF o.t = "undefined" THEN DEFAULT_PARSER_OPTIONS ELSE o

\* the method list with delete moved to the front
methodsDeleteFirst == <<"delete", "get", "post", "put", "patch", "head", "options">>
methods == <<"get", "post", "put", "patch", "delete", "head", "options">>

\* String.prototype.toUpperCase on one atom
UpperAtom(a) ==
    CASE a = "get" -> "GET" [] a = "post" -> "POST" [] a = "put" -> "PUT"
      [] a = "patch" -> "PATCH" [] a = "delete" -> "DELETE" [] a = "head" -> "HEAD"
      [] a = "options" -> "OPTIONS" [] a = "Get" -> "GET" [] OTHER -> a
ToUpperCase(s) == Str([i \in 1..Len(s.v) |-> UpperAtom(s.v[i])])

\* x?.[0]
OptIndex0(x) ==
    CASE x.t = "array" -> IF x.v = <<>> THEN Undefined ELSE x.v[1]
      [] x.t = "string" -> IF x.v = <<>> THEN Undefined ELSE Str(<<x.v[1]>>)
      [] x.t = "object" -> Get(x, K("0"))
      [] OTHER -> Undefined

\* x?.key
OptGet(x, key) == IF IsNullish(x) THEN Undefined ELSE Get(x, key)

\* a || b
OrElse(a, b) == IF Truthy(a) THEN a ELSE b

\* Object.entries(x) of a truthy x: the entries of an object, the indexed
\* elements of an array, the characters of a string, nothing of a number or true
\* the key of the element at (1-based) position i; arrays whose entries are
\* taken have at most three elements
IndexKey(i) == CASE i = 1 -> <<"0">> [] i = 2 -> <<"1">> [] i = 3 -> <<"2">> [] OTHER -> <<"n">>
Entries(x) ==
    CASE x.t = "object" -> x.v
      [] x.t = "array" -> [i \in 1..Len(x.v) |-> <<IndexKey(i), x.v[i]>>]
      [] x.t = "string" -> [i \in 1..Len(x.v) |-> <<IndexKey(i), Str(<<x.v[i]>>)>>]
      [] OTHER -> <<>>

\* Array.prototype.includes(x) of the array list: SameValueZero, so an object
\* or array x equals no element
Includes(list, x) ==
    /\ x.t \notin {"object", "array"}
    /\ \E j \in 1..Len(list.v) : list.v[j] = x

\* TagsSome with an operation that has no tags passing the filter
TagsSomeUntaggedPasses(tags, list) ==
    IF IsNullish(tags) THEN Return(Bool(TRUE))
    ELSE IF tags.t # "array" THEN Throw("TypeError")
    ELSE Return(Bool(\E i \in 1..Len(tags.v) : Includes(list, tags.v[i])))

\* operation.tags?.some(tag => list?.includes(tag))
TagsSome(tags, list) ==
    IF IsNullish(tags) THEN Return(Undefined)
    ELSE IF tags.t # "array" THEN Throw("TypeError")
    ELSE Return(Bool(\E i \in 1..Len(tags.v) : Includes(list, tags.v[i])))

\* TagFilterSet without the length test: an empty list filters too
TagFilterSetIgnoresLength(list) == Truthy(list)

\* options.includeTags && options.includeTags.length > 0
TagFilterSet(list) == Truthy(list) /\ GreaterThanZero(LengthOf(list))

\* x.security && x.security.length > 0
HasSecurity(x) ==
    LET sec == Get(x, K("security")) IN Truthy(sec) /\ GreaterThanZero(LengthOf(sec))

\* const requiresAuth = !!(operation.security && ...) || !!(doc.security && ...)
RequiresAuth(doc, operation) == Bool(HasSecurity(operation) \/ HasSecurity(doc))

\* options.maxEndpoints && endpoints.length >= options.maxEndpoints
CutoffReached(o, eps) ==
    LET max == Get(o, K("maxEndpoints"))
    IN  Truthy(max) /\ max.t = "number" /\ Len(eps) >= max.v

\* one parameter of parseOpenAPI
OpenAPIParameter(param) ==
    [name |-> Get(param, K("name")),
     in |-> Get(param, K("in")),
     required |-> OrElse(Get(param, K("required")), Bool(FALSE)),
     type |-> OptGet(Get(param, K("schema")), K("type")),
     description |-> Get(param, K("description")),
     schema |-> Get(param, K("schema"))]

\* one parameter of parseSwagger: type falls back to the schema's type
SwaggerParameter(param) ==
    [name |-> Get(param, K("name")),
     in |-> Get(param, K("in")),
     required |-> OrElse(Get(param, K("required")), Bool(FALSE)),
     type |-> OrElse(Get(param, K("type")), OptGet(Get(param, K("schema")), K("type"))),
     description |-> Get(param, K("description")),
     schema |-> Get(param, K("schema"))]

\* if (operation.parameters) operation.parameters.forEach(...): the parameter
\* list, or a TypeError when parameters is no array or holds null
Parameters(operation, swagger) ==
    LET ps == Get(operation, K("parameters"))
    IN  IF ~Truthy(ps) THEN Return(<<>>)
        ELSE IF ps.t # "array" THEN Throw("TypeError")
        ELSE IF \E i \in 1..Len(ps.v) : IsNullish(ps.v[i]) THEN Throw("TypeError")
        ELSE Return([i \in 1..Len(ps.v) |->
                       IF swagger THEN SwaggerParameter(ps.v[i]) ELSE OpenAPIParameter(ps.v[i])])

\* the body of the method loop for one operation: "skip" (continue), "emit"
\* with the endpoint pushed, or "throw"
Operation(doc, o, path, method, operation, swagger) ==
    LET includeTags == Get(o, K("includeTags"))
        excludeTags == Get(o, K("excludeTags"))
        tags == Get(operation, K("tags"))
        hasTags == TagsSome(tags, includeTags)
        hasExcludedTag == TagsSome(tags, excludeTags)
        parameters == Parameters(operation, swagger)
        endpoint ==
            [method |-> ToUpperCase(S(method)),
             path |-> Str(path),
             summary |-> Get(operation, K("summary")),
             description |-> Get(operation, K("description")),
             parameters |-> parameters.val,
             requestBody |-> IF swagger THEN Undefined ELSE Get(operation, K("requestBody")),
             responses |-> Get(operation, K("responses")),
             operationId |-> Get(operation, K("operationId")),
             tags |-> tags,
             requiresAuth |-> RequiresAuth(doc, operation)]
    IN  IF Truthy(Get(operation, K("deprecated"))) /\ ~Truthy(Get(o, K("includeDeprecated")))
        THEN [kind |-> "skip"]
        ELSE IF TagFilterSet(includeTags) /\ hasTags.raised THEN [kind |-> "throw"]
        ELSE IF TagFilterSet(includeTags) /\ ~Truthy(hasTags.val) THEN [kind |-> "skip"]
        ELSE IF TagFilterSet(excludeTags) /\ hasExcludedTag.raised THEN [kind |-> "throw"]
        ELSE IF TagFilterSet(excludeTags) /\ Truthy(hasExcludedTag.val) THEN [kind |-> "skip"]
        ELSE IF parameters.raised THEN [kind |-> "throw"]
        ELSE [kind |-> "emit", endpoint |-> endpoint]

\* the loop state after one operation of the method loop
AfterOperation(o, step, loop) ==
    IF step.kind = "throw" THEN [loop EXCEPT !.raised = TRUE]
    ELSE IF step.kind = "skip" THEN loop
    \* the endpoint is pushed; the cutoff breaks out of the method loop
    ELSE [loop EXCEPT !.eps = Append(@, step.endpoint),
                      !.stop = CutoffReached(o, Append(loop.eps, step.endpoint))]

\* for (const method of methods), from method m on: the endpoints pushed so
\* far, whether the loop was left by break and whether an error was raised
RECURSIVE WalkMethods(_, _, _, _, _, _, _)
WalkMethods(doc, o, path, pathItem, m, loop, swagger) ==
    IF m > Len(methods) \/ loop.stop \/ loop.raised THEN loop
    \* pathItem[method] on null
    ELSE IF IsNullish(pathItem) THEN [loop EXCEPT !.raised = TRUE]
    ELSE IF ~Truthy(Get(pathItem, K(methods[m])))
         THEN WalkMethods(doc, o, path, pathItem, m + 1, loop, swagger)
    ELSE WalkMethods(doc, o, path, pathItem, m + 1,
                     AfterOperation(o,
                                    Operation(doc, o, path, methods[m],
                                              Get(pathItem, K(methods[m])), swagger),
                                    loop),
                     swagger)

\* the check after the method loop, then the next path
AfterMethods(o, loop) ==
    IF loop.raised THEN loop
    ELSE [loop EXCEPT !.stop = CutoffReached(o, loop.eps)]

\* for (const [path, pathItem] of Object.entries(doc.paths)), from path p on
RECURSIVE WalkPaths(_, _, _, _, _, _)
WalkPaths(doc, o, entries, p, loop, swagger) ==
    IF p > Len(entries) \/ loop.stop \/ loop.raised THEN loop
    ELSE WalkPaths(doc, o, entries, p + 1,
                   AfterMethods(o, WalkMethods(doc, o, entries[p][1], entries[p][2], 1,
                                               loop, swagger)),
                   swagger)

\* the completion of the two loops
LoopCompletion(loop) == IF loop.raised THEN Throw("TypeError") ELSE Return(loop.eps)

Metadata(info, titleKey, sourceType) ==
    [title |-> OptGet(info, K(titleKey)),
     version |-> OptGet(info, K("version")),
     description |-> OptGet(info, K("description")),
     sourceType |-> sourceType]

Endpoints(doc, o, swagger) ==
    LET paths == Get(doc, K("paths"))
    IN  IF Truthy(paths)
        THEN LoopCompletion(WalkPaths(doc, o, Entries(paths), 1,
                                      [eps |-> <<>>, stop |-> FALSE, raised |-> FALSE],
                                      swagger))
        ELSE Return(<<>>)

-----------------------------------------------------------------------------
(* parseOpenAPI, src/lib/api-parser.ts:48-136 *)

parseOpenAPI(doc, options) ==
    LET o == OptionsOrDefault(options)
        baseUrl == OrElse(OptGet(OptIndex0(Get(doc, K("servers"))), K("url")), DefaultBaseUrl)
        endpoints == Endpoints(doc, o, FALSE)
    IN  IF endpoints.raised THEN endpoints
        ELSE Return([baseUrl |-> baseUrl,
                     endpoints |-> Arr(endpoints.val),
                     metadata |-> Metadata(Get(doc, K("info")), "title", "openapi")])

-----------------------------------------------------------------------------
(* parseSwagger, src/lib/api-parser.ts:141-229 *)

\* `${x}` of the values the base URL is built from: documents of the model
\* give schemes, host and basePath as strings or leave them out
TemplateText(x) == IF x.t = "string" THEN x.v ELSE <<x.t>>

\* parseSwagger working with the default options whatever options it is given
parseSwaggerDefaultOptions(doc, options) ==
    LET endpoints == Endpoints(doc, DEFAULT_PARSER_OPTIONS, TRUE)
    IN  IF endpoints.raised THEN endpoints
        ELSE Return([baseUrl |-> DefaultBaseUrl,
                     endpoints |-> Arr(endpoints.val),
                     metadata |-> Metadata(Get(doc, K("info")), "title", "swagger")])

parseSwagger(doc, options) ==
    LET o == OptionsOrDefault(options)
        scheme == OrElse(OptIndex0(Get(doc, K("schemes"))), S("https"))
        host == OrElse(Get(doc, K("host")),
                       Str(<<"api", ".", "example", ".", "com">>))
        basePath == OrElse(Get(doc, K("basePath")), Str(<<>>))
        baseUrl == Str(TemplateText(scheme) \o <<":", "/", "/">> \o TemplateText(host)
                       \o TemplateText(basePath))
        endpoints == Endpoints(doc, o, TRUE)
    IN  IF endpoints.raised THEN endpoints
        ELSE Return([baseUrl |-> baseUrl,
                     endpoints |-> Arr(endpoints.val),
                     metadata |-> Metadata(Get(doc, K("info")), "title", "swagger")])

-----------------------------------------------------------------------------
(* parsePostman, src/lib/api-parser.ts:234-349 *)

\* collection.variable.find(v => v.key === 'baseUrl' || ...): the first element
\* with one of the three keys, undefined when there is none, a TypeError when
\* a null element is tested first
RECURSIVE FindBaseUrlVar(_, _)
FindBaseUrlVar(list, i) ==
    IF i > Len(list) THEN Return(Undefined)
    ELSE IF IsNullish(list[i]) THEN Throw("TypeError")
    ELSE IF Get(list[i], K("key")) \in {S("baseUrl"), S("base_url"), S("url")}
         THEN Return(list[i])
    ELSE FindBaseUrlVar(list, i + 1)

\* the base URL before the traversal, or a TypeError when collection.variable
\* is truthy and no array
InitialBaseUrl(collection) ==
    LET variable == Get(collection, K("variable"))
        baseUrlVar == FindBaseUrlVar(variable.v, 1)
    IN  IF ~Truthy(variable) THEN Return(DefaultBaseUrl)
        ELSE IF variable.t # "array" THEN Throw("TypeError")
        ELSE IF baseUrlVar.raised THEN Throw("TypeError")
        ELSE IF Truthy(baseUrlVar.val) THEN Return(Get(baseUrlVar.val, K("value")))
        ELSE Return(DefaultBaseUrl)

\* request.header.forEach / request.url.query.forEach: the parameters of the
\* entries that are not disabled
RECURSIVE EnabledParameters(_, _, _)
EnabledParameters(list, i, where) ==
    IF i > Len(list) THEN <<>>
    ELSE IF Truthy(Get(list[i], K("disabled"))) THEN EnabledParameters(list, i + 1, where)
    ELSE <<[name |-> Get(list[i], K("key")),
            in |-> S(where),
            required |-> Bool(FALSE),
            type |-> S("string"),
            description |-> Get(list[i], K("description")),
            schema |-> Undefined]>> \o EnabledParameters(list, i + 1, where)

\* forEach over a truthy list: a TypeError when it is no array or holds null
ListRaises(list) ==
    Truthy(list) /\ (list.t # "array" \/ \E i \in 1..Len(list.v) : IsNullish(list.v[i]))

\* typeof request === 'string' ? 'GET' : request.method || 'GET'
RequestMethod(request) ==
    IF request.t = "string" THEN S("GET") ELSE OrElse(Get(request, K("method")), S("GET"))

\* the text of request.url: the string itself, its raw field or ''
RequestUrl(urlField) ==
    IF urlField.t = "string" THEN urlField
    ELSE IF Truthy(urlField) /\ Truthy(Get(urlField, K("raw"))) THEN Get(urlField, K("raw"))
    ELSE Str(<<>>)

\* request.url && request.url.query
RequestQuery(urlField) == IF Truthy(urlField) THEN Get(urlField, K("query")) ELSE Undefined

\* the base URL after a request: the origin of the first URL that parses
\* replaces the placeholder
LeafBaseUrl(urlObj, baseUrl) ==
    IF urlObj.ok /\ baseUrl = DefaultBaseUrl /\ urlObj.origin # <<>>
    THEN Str(urlObj.origin) ELSE baseUrl

LeafEndpoint(item, request, parentPath, method, url, urlObj, header, query) ==
    [method |-> ToUpperCase(method),
     path |-> IF urlObj.ok THEN Str(urlObj.pathname) ELSE url,
     summary |-> Get(item, K("name")),
     description |-> OrElse(Get(request, K("description")), Get(item, K("description"))),
     parameters |->
        (IF Truthy(header) THEN EnabledParameters(header.v, 1, "header") ELSE <<>>)
        \o (IF Truthy(query) THEN EnabledParameters(query.v, 1, "query") ELSE <<>>),
     requestBody |-> Undefined,
     responses |-> Undefined,
     operationId |-> Undefined,
     tags |-> IF Truthy(parentPath) THEN Arr(<<parentPath>>) ELSE Undefined,
     requiresAuth |-> Undefined]

\* the request part of the callback, given the method, the URL text, the
\* parsed URL, the headers and the query of the request
PushLeaf(item, request, parentPath, st, method, url, urlObj, header, query) ==
    \* (request.method || 'GET').toUpperCase is not a function
    IF method.t # "string" THEN [st EXCEPT !.raised = TRUE]
    ELSE IF ListRaises(header) \/ ListRaises(query) THEN [st EXCEPT !.raised = TRUE]
    ELSE [st EXCEPT !.endpoints =
                        Append(@, LeafEndpoint(item, request, parentPath, method, url,
                                               urlObj, header, query)),
                    !.baseUrl = LeafBaseUrl(urlObj, st.baseUrl)]

PushLeafAt(item, request, parentPath, st, url, urlField) ==
    PushLeaf(item, request, parentPath, st, RequestMethod(request), url, ParseURL(url),
             Get(request, K("header")), RequestQuery(urlField))

\* the part of the forEach callback that handles item.request: st with the
\* endpoint pushed and the base URL updated, or raised
RequestLeaf(item, request, parentPath, st) ==
    PushLeafAt(item, request, parentPath, st,
               RequestUrl(Get(request, K("url"))), Get(request, K("url")))

RECURSIVE parseItems(_, _, _, _, _)

\* Children handing the parent's folder name on instead of the item's name
ChildrenKeepParentPath(item, parentPath, o, st, returned) ==
    IF st.raised \/ returned \/ Get(item, K("item")).t # "array" THEN st
    ELSE parseItems(Get(item, K("item")).v, 1, parentPath, o, st)

\* if (item.item && Array.isArray(item.item)) parseItems(item.item, folderName),
\* unless the callback returned before
Children(item, parentPath, o, st, returned) ==
    IF st.raised \/ returned \/ Get(item, K("item")).t # "array" THEN st
    ELSE parseItems(Get(item, K("item")).v, 1,
                    OrElse(Get(item, K("name")), parentPath), o, st)

\* the callback after the request part: the return at the cutoff ends the
\* callback of this one item
AfterLeaf(item, parentPath, o, st) ==
    Children(item, parentPath, o, st, ~st.raised /\ CutoffReached(o, st.endpoints))

\* the callback visiting the children of an item before its request
CallbackChildrenFirst(item, parentPath, o, st) ==
    IF IsNullish(item) THEN [st EXCEPT !.raised = TRUE]
    ELSE IF Truthy(Get(item, K("request")))
         THEN RequestLeaf(item, Get(item, K("request")), parentPath,
                          Children(item, parentPath, o, st, FALSE))
    ELSE Children(item, parentPath, o, st, FALSE)

\* the forEach callback for one item
Callback(item, parentPath, o, st) ==
    \* item.request on null
    IF IsNullish(item) THEN [st EXCEPT !.raised = TRUE]
    ELSE IF Truthy(Get(item, K("request")))
         THEN AfterLeaf(item, parentPath, o,
                        RequestLeaf(item, Get(item, K("request")), parentPath, st))
    ELSE Children(item, parentPath, o, st, FALSE)

\* items.forEach(callback) from element i on: forEach goes on with the next
\* item whatever the callback of this one did
parseItems(items, i, parentPath, o, st) ==
    IF st.raised \/ i > Len(items) THEN st
    ELSE parseItems(items, i + 1, parentPath, o, Callback(items[i], parentPath, o, st))

\* the traversal starts with the base URL of the variables
PostmanStart(seed) == [endpoints |-> <<>>, baseUrl |-> seed.val, raised |-> seed.raised]

\* if (collection.item) parseItems(collection.item)
PostmanItems(o, items, st) ==
    IF st.raised \/ ~Truthy(items) THEN st
    \* collection.item.forEach is not a function
    ELSE IF items.t # "array" THEN [st EXCEPT !.raised = TRUE]
    ELSE parseItems(items.v, 1, Str(<<>>), o, st)

PostmanResult(collection, st) ==
    IF st.raised THEN Throw("TypeError")
    ELSE Return([baseUrl |-> st.baseUrl,
                 endpoints |-> Arr(st.endpoints),
                 metadata |-> Metadata(Get(collection, K("info")), "name", "postman")])

parsePostman(collection, options) ==
    PostmanResult(collection,
                  PostmanItems(OptionsOrDefault(options), Get(collection, K("item")),
                               PostmanStart(InitialBaseUrl(collection))))

-----------------------------------------------------------------------------
(* parseHTML, src/lib/api-parser.ts:354-417.  The three regular expressions *)
(* are matched on the atoms of the text.                                    *)

HtmlMaxEndpoints == 50

\* the literal pieces of the prompt formatContextForAI and
\* formatEndpointForAI write, each one atom, with their numbers of characters
Bullet == "  (U+2022) "    \* two spaces, the bullet character, a space
PromptPhrases ==
    { <<"\n\nAPI CONTEXT LOADED:\n", 22>>,
      <<"API Name: ", 10>>,
      <<"Base URL: ", 10>>,
      <<"Description: ", 13>>,
      <<"\nAvailable Endpoints (", 22>>,
      <<" of ", 4>>,
      <<"):\n", 3>>,
      <<"\n[", 2>>,
      <<"]\n", 2>>,
      <<Bullet, 4>>,
      <<"\nIMPORTANT: When generating API requests, you MUST use only the endpoints listed above. ", 88>>,
      <<"Always construct full URLs by combining the base URL with the endpoint path. ", 77>>,
      <<"If a required parameter is mentioned, include it in the request.\n", 65>>,
      <<" - ", 3>>,
      <<" (requires: ", 12>>,
      <<", ", 2>>,
      <<"constructor", 11>>,
      \* a word of a hundred characters
      <<"word100", 100>> }

PhraseLen(a) == (CHOOSE ph \in PromptPhrases : ph[1] = a)[2]

\* the number of characters of an atom, for the atoms the texts of the model use
AtomLen(a) ==
    CASE a \in Punctuation -> 1
      [] a \in {ph[1] : ph \in PromptPhrases} -> PhraseLen(a)
      [] a \in {"a", "b", "c", "p", "q", "x", "i", "F", "T", "X", "0", "1", "2", "3", "5"} -> 1
      [] a \in {ToString(n) : n \in 0..9} -> 1
      [] a \in {ToString(n) : n \in 10..99} -> 2
      [] a \in {"id", "v1", "v2", "io", "R1", "R2", "R3"} -> 2
      [] a \in {"api", "GET", "get", "Get", "com", "put", "PUT", "ftp", "not", "url", "443",
                 "see", "and", "abc"} -> 3
      [] a \in {"http", "POST", "post", "HEAD", "head", "8080", "null", "true"} -> 4
      [] a \in {"DELETE", "delete", "widget"} -> 6
      [] a \in {"OPTIONS", "options", "example"} -> 7
      [] OTHER -> 5

\* String.prototype.length: the characters of the two halves of the text
RECURSIVE TextLen(_)
TextLen(a) ==
    IF Len(a) = 0 THEN 0
    ELSE IF Len(a) = 1 THEN AtomLen(a[1])
    ELSE TextLen(SubSeq(a, 1, Len(a) \div 2)) + TextLen(SubSeq(a, Len(a) \div 2 + 1, Len(a)))

\* the character classes of the three expressions
InClass(kind, a) ==
    CASE kind = "host" -> IsWord(a) \/ a \in {"-", "."}                \* [\w\-.]
      [] kind = "pathTail" -> a \notin Whitespace \cup {Quote, "'", "<", ">"}  \* [^\s"'<>]
      [] kind = "wordDash" -> IsWord(a) \/ a = "-"                     \* [\w\-]
      [] kind = "methodPath" -> IsWord(a) \/ a \in {"/", "-", "{", "}"}  \* [\/\w\-{}]
      [] OTHER -> a \in Whitespace                                     \* \s

\* the end (exclusive) of the longest run of atoms of the class from position i
RECURSIVE RunEnd(_, _, _)
RunEnd(a, i, kind) ==
    IF i <= Len(a) /\ InClass(kind, a[i]) THEN RunEnd(a, i + 1, kind) ELSE i

At(a, i) == IF i >= 1 /\ i <= Len(a) THEN a[i] ELSE ""

\* /https?:\/\/[\w\-.]+(:\d+)?(\/[^\s"'<>]*)?/ at position i: the end
\* (exclusive) of the match, 0 when there is none
BaseUrlMatchAt(a, i) ==
    LET hostEnd == RunEnd(a, i + 4, "host")
        portEnd == IF At(a, hostEnd) = ":" /\ IsDigits(At(a, hostEnd + 1))
                   THEN hostEnd + 2 ELSE hostEnd
        pathEnd == IF At(a, portEnd) = "/" THEN RunEnd(a, portEnd + 1, "pathTail") ELSE portEnd
    IN  IF /\ At(a, i) \in {"http", "https"}
           /\ At(a, i + 1) = ":" /\ At(a, i + 2) = "/" /\ At(a, i + 3) = "/"
           /\ hostEnd > i + 4
        THEN pathEnd ELSE 0

\* the leftmost of the positions where an expression matches, 0 when there
\* is none
FirstIn(positions) ==
    IF positions = {} THEN 0 ELSE CHOOSE i \in positions : \A j \in positions : i <= j

BaseUrlMatchFrom(a, i) == IF i = 0 THEN <<>> ELSE SubSeq(a, i, BaseUrlMatchAt(a, i) - 1)

\* html.match(...) without the g flag: the leftmost match from position i on
FirstBaseUrlMatch(a, i) ==
    BaseUrlMatchFrom(a, FirstIn({j \in i..Len(a) : BaseUrlMatchAt(a, j) > 0}))

\* the version segments v\d+ of the texts of the model
VersionWords == {"v1", "v2"}

\* /\/(?:api\/)?(?:v\d+\/)?[\w\-]+(?:\/\{[\w\-]+\})?/ at position i: the end
\* (exclusive) of the match, 0 when there is none.  The optional groups are
\* greedy and given up, the version first, when the rest cannot match.
EndpointMatchAt(a, i) ==
    LET afterApi(q) == IF At(a, q) = "api" /\ At(a, q + 1) = "/" THEN q + 2 ELSE 0
        afterVersion(q) == IF At(a, q) \in VersionWords /\ At(a, q + 1) = "/" THEN q + 2 ELSE 0
        runFrom(q) == IF q > 0 /\ RunEnd(a, q, "wordDash") > q THEN RunEnd(a, q, "wordDash") ELSE 0
        api == afterApi(i + 1)
        r == IF api > 0 /\ afterVersion(api) > 0 /\ runFrom(afterVersion(api)) > 0
                 THEN runFrom(afterVersion(api))
             ELSE IF api > 0 /\ runFrom(api) > 0 THEN runFrom(api)
             ELSE IF afterVersion(i + 1) > 0 /\ runFrom(afterVersion(i + 1)) > 0
                 THEN runFrom(afterVersion(i + 1))
             ELSE runFrom(i + 1)
        t == RunEnd(a, r + 2, "wordDash")
    IN  IF At(a, i) # "/" \/ r = 0 THEN 0
        ELSE IF At(a, r) = "/" /\ At(a, r + 1) = "{" /\ t > r + 2 /\ At(a, t) = "}" THEN t + 1
        ELSE r

\* html.match(endpointPattern): the matches, left to right, not overlapping
RECURSIVE EndpointMatches(_, _)

\* the match at position i and the matches after it
EndpointMatchesFrom(a, i) ==
    IF i = 0 THEN <<>>
    ELSE <<SubSeq(a, i, EndpointMatchAt(a, i) - 1)>> \o EndpointMatches(a, EndpointMatchAt(a, i))

EndpointMatches(a, i) ==
    EndpointMatchesFrom(a, FirstIn({j \in i..Len(a) : EndpointMatchAt(a, j) > 0}))

InSeq(x, q) == \E i \in 1..Len(q) : q[i] = x

\* the Set uniquePaths, in insertion order: the matches of more than 2 and
\* fewer than 100 characters, each once
RECURSIVE UniquePaths(_, _, _)
UniquePaths(matches, i, acc) ==
    IF i > Len(matches) THEN acc
    ELSE IF TextLen(matches[i]) > 2 /\ TextLen(matches[i]) < 100 /\ ~InSeq(matches[i], acc)
         THEN UniquePaths(matches, i + 1, Append(acc, matches[i]))
    ELSE UniquePaths(matches, i + 1, acc)

\* the method keyword a word atom ends with (the expression is not anchored
\* and ignores case), "" when it ends with none
MethodSuffix(a) ==
    CASE a \in {"GET", "get", "Get", "POST", "post", "PUT", "put", "PATCH", "patch",
                "DELETE", "delete", "HEAD", "head", "OPTIONS", "options"} -> a
      [] a = "widget" -> "get"
      [] OTHER -> ""

\* /(GET|POST|PUT|PATCH|DELETE|HEAD|OPTIONS)\s+([\/\w\-{}]+)/gi at position
\* i: the start of the path and the end (exclusive) of the match, or 0
MethodMatchAt(a, i) ==
    LET w == RunEnd(a, i + 1, "space")
        e == RunEnd(a, w, "methodPath")
    IN  IF MethodSuffix(At(a, i)) # "" /\ w > i + 1 /\ e > w
        THEN [from |-> w, to |-> e] ELSE [from |-> 0, to |-> 0]

\* the while loop over methodPattern.exec(html): the <<method, path>> captures
RECURSIVE MethodMatches(_, _)

\* the captures of the match m at position i and those of the matches after it
MethodMatchesFrom(a, i, m) ==
    <<[method |-> MethodSuffix(a[i]), path |-> SubSeq(a, m.from, m.to - 1)]>>
    \o MethodMatches(a, m.to)

MethodMatchesAt(a, i) == IF i = 0 THEN <<>> ELSE MethodMatchesFrom(a, i, MethodMatchAt(a, i))

MethodMatches(a, i) ==
    MethodMatchesAt(a, FirstIn({j \in i..Len(a) : MethodMatchAt(a, j).to > 0}))

HtmlEndpoint(method, path, shown) ==
    [method |-> S(method),
     path |-> Str(path),
     summary |-> Str(<<shown, " ">> \o path),
     description |-> Undefined,
     parameters |-> <<>>,
     requestBody |-> Undefined,
     responses |-> Undefined,
     operationId |-> Undefined,
     tags |-> Undefined,
     requiresAuth |-> Undefined]

\* uniquePaths.forEach: a GET endpoint per remaining path while fewer than
\* HtmlMaxEndpoints endpoints are collected
RECURSIVE AddRemainingPaths(_, _, _)
AddRemainingPaths(paths, i, eps) ==
    IF i > Len(paths) THEN eps
    ELSE IF Len(eps) < HtmlMaxEndpoints
         THEN AddRemainingPaths(paths, i + 1, Append(eps, HtmlEndpoint("GET", paths[i], "GET")))
    ELSE AddRemainingPaths(paths, i + 1, eps)

\* the array that keeps every element
SliceKeepsAll(q, n) == q
\* Array.prototype.slice(0, n): a negative n counts from the end
Slice(q, n) ==
    SubSeq(q, 1, IF n < 0 THEN (IF Len(q) + n < 0 THEN 0 ELSE Len(q) + n)
                 ELSE IF Len(q) < n THEN Len(q) ELSE n)

SelectSeqNotIn(q, removed) == SelectSeq(q, LAMBDA x : ~InSeq(x, removed))

parseHTML(html) ==
    LET a == html.v
        baseUrlMatch == FirstBaseUrlMatch(a, 1)
        url == ParseURL(Str(baseUrlMatch))
        baseUrl == IF baseUrlMatch = <<>> THEN DefaultBaseUrl
                   ELSE IF url.ok THEN Str(url.origin)
                   ELSE Str(baseUrlMatch)
        uniquePaths == UniquePaths(EndpointMatches(a, 1), 1, <<>>)
        found == MethodMatches(a, 1)
        byMethod == [i \in 1..Len(found) |->
                       HtmlEndpoint(UpperAtom(found[i].method), found[i].path, found[i].method)]
        remaining == SelectSeqNotIn(uniquePaths, [i \in 1..Len(found) |-> found[i].path])
        endpoints == AddRemainingPaths(remaining, 1, byMethod)
    IN  Return([baseUrl |-> baseUrl,
                \* endpoints.slice(0, 50)
                endpoints |-> Arr(Slice(endpoints, HtmlMaxEndpoints)),
                metadata |-> [title |-> Str(<<"Parsed", " ", "from", " ", "HTML">>),
                              version |-> Undefined,
                              description |-> Undefined,
                              sourceType |-> "html"]])

-----------------------------------------------------------------------------
(* JSON.stringify of a decoded value *)

NumberAtom(n) ==
    CASE n = 0 -> "0" [] n = 1 -> "1" [] n = 2 -> "2" [] n = 3 -> "3" [] OTHER -> "5"

RECURSIVE JSONStringify(_), StringifyElements(_, _), StringifyMembers(_, _, _)
JSONStringify(x) ==
    CASE x.t = "null" -> <<"null">>
      [] x.t = "boolean" -> IF x.v THEN <<"true">> ELSE <<"false">>
      [] x.t = "number" -> <<NumberAtom(x.v)>>
      [] x.t = "string" -> <<Quote>> \o x.v \o <<Quote>>
      [] x.t = "array" -> <<"[">> \o StringifyElements(x.v, 1) \o <<"]">>
      [] x.t = "object" -> <<"{">> \o StringifyMembers(x.v, 1, TRUE) \o <<"}">>
      [] OTHER -> <<>>

StringifyElements(a, i) ==
    IF i > Len(a) THEN <<>>
    ELSE (IF i > 1 THEN <<",">> ELSE <<>>)
         \o (IF a[i].t = "undefined" THEN <<"null">> ELSE JSONStringify(a[i]))
         \o StringifyElements(a, i + 1)

StringifyMembers(e, i, first) ==
    IF i > Len(e) THEN <<>>
    ELSE IF e[i][2].t = "undefined" THEN StringifyMembers(e, i + 1, first)
    ELSE (IF first THEN <<>> ELSE <<",">>)
         \o <<Quote>> \o e[i][1] \o <<Quote, ":">> \o JSONStringify(e[i][2])
         \o StringifyMembers(e, i + 1, FALSE)

-----------------------------------------------------------------------------
(* parseApiDocumentation, src/lib/api-parser.ts:422-457 *)

\* switch (docType)
ParseByType(c, doc, docType, options) ==
    IF docType.raised THEN docType
    ELSE CASE docType.val = "openapi" -> parseOpenAPI(doc, options)
           [] docType.val = "swagger" -> parseSwagger(doc, options)
           [] docType.val = "postman" -> parsePostman(doc, options)
           [] docType.val = "html" ->
                parseHTML(IF c.t = "string" THEN c ELSE Str(JSONStringify(c)))
           [] OTHER -> Throw("Unsupported document type")

\* decoded is the completion of JSON.parse(content), or the content itself
\* when it is no string
ParseDecoded(c, decoded, options) ==
    IF decoded.raised THEN parseHTML(c)
    ELSE ParseByType(c, decoded.val, detectDocType(decoded.val), options)

parseApiDocumentation(c, options) ==
    ParseDecoded(c, IF c.t = "string" THEN JSONParse(c) ELSE Return(c), options)

-----------------------------------------------------------------------------
(* validateParsedDoc, src/lib/api-parser.ts:462-483 *)

\* validateParsedDoc returning at the first failing check
validateParsedDocFirstErrorOnly(parsed) ==
    LET errors ==
            IF ~Truthy(parsed.baseUrl) THEN <<"Missing base URL">>
            ELSE IF ~Truthy(parsed.endpoints) \/ LengthOf(parsed.endpoints) = Num(0)
                 THEN <<"No endpoints found">>
            ELSE IF ~ParseURL(parsed.baseUrl).ok THEN <<"Invalid base URL format">>
            ELSE <<>>
    IN  [valid |-> Len(errors) = 0, errors |-> errors]

validateParsedDoc(parsed) ==
    LET e1 == IF ~Truthy(parsed.baseUrl) THEN <<"Missing base URL">> ELSE <<>>
        e2 == IF ~Truthy(parsed.endpoints) \/ LengthOf(parsed.endpoints) = Num(0)
              THEN <<"No endpoints found">> ELSE <<>>
        e3 == IF ~ParseURL(parsed.baseUrl).ok THEN <<"Invalid base URL format">> ELSE <<>>
        errors == e1 \o e2 \o e3
    IN  [valid |-> Len(errors) = 0, errors |-> errors]

-----------------------------------------------------------------------------
(* Building documents *)

Field(k, x) == <<K(k), x>>
\* an optional field: left out when the value is undefined
Opt(k, x) == IF x = Undefined THEN <<>> ELSE <<Field(k, x)>>

V300 == Str(<<"3", ".", "0", ".", "0">>)
PathUsers == <<"/", "users">>
PathUser == <<"/", "users", "/", "{", "id", "}">>
PathOrders == <<"/", "orders">>
UrlApiX == Str(<<"https", ":", "/", "/", "api", ".", "x", ".", "com">>)
UrlUsers == Str(<<"https", ":", "/", "/", "api", ".", "x", ".", "com", "/", "users">>)
UrlOther == Str(<<"https", ":", "/", "/", "other", ".", "io", "/", "orders">>)
UrlTemplate == Str(<<"{", "{", "baseUrl", "}", "}", "/", "users">>)
NotAUrl == Str(<<"not", " ", "a", " ", "url">>)

NotCalled == [raised |-> FALSE, err |-> "not called", val |-> Undefined]
NoStore == [contexts |-> <<>>, activeContextId |-> Null, lastUpdated |-> 0]
NoResponse ==
    [route |-> "", status |-> 0, error |-> "", context |-> Undefined, steps |-> <<>>]

NoSetResponse == [status |-> 0, message |-> "", contextId |-> Undefined]

NoSession == [state |-> <<>>, localStorage |-> <<>>, conversationCache |-> <<>>]
NoPanel ==
    [isGenerating |-> FALSE, isExecuting |-> FALSE, currentPreview |-> FALSE,
     showExecuteDialog |-> FALSE, sending |-> <<>>, executing |-> <<>>]

Idle ==
    /\ cache = <<>>
    /\ used = <<>>
    /\ session = NoSession
    /\ panel = NoPanel
    /\ appended = {}

StoreIdle ==
    /\ storage = [present |-> FALSE, store |-> NoStore]
    /\ clock = 0
    /\ response = NoResponse
    /\ setResponse = NoSetResponse
    /\ Idle

-----------------------------------------------------------------------------
(* Specification SpecParse: detectDocType and parseApiDocumentation applied *)
(* to strings and to decoded values, as the fetch and upload routes do      *)
(* (no options argument).                                                   *)

\* operations with well-formed and malformed sub-structures
ParseOperations ==
    { Obj(<<>>),
      Bool(TRUE),
      Obj(<<Field("tags", Arr(<<S("a")>>)), Field("summary", S("List"))>>),
      Obj(<<Field("tags", S("a"))>>),
      Obj(<<Field("parameters", Arr(<<Obj(<<Field("name", S("id")), Field("in", S("path")),
                                            Field("required", Bool(TRUE))>>)>>))>>),
      Obj(<<Field("parameters", Obj(<<>>))>>),
      Obj(<<Field("parameters", Arr(<<Null>>))>>),
      Obj(<<Field("deprecated", Bool(TRUE))>>),
      Obj(<<Field("security", Arr(<<Obj(<<>>)>>))>>) }

ParsePathItems ==
    {Null, S("x"), Num(5), Obj(<<>>)}
    \cup {Obj(<<Field("get", op)>>) : op \in ParseOperations}

ParsePaths ==
    {Undefined, Null, S("x"), Num(5), Obj(<<>>)}
    \cup {Obj(<< <<PathUsers, item>> >>) : item \in ParsePathItems}
    \cup {Obj(<< <<PathUsers, Obj(<<Field("get", Obj(<<>>))>>)>>, <<PathUser, item>> >>) :
            item \in {Null, Obj(<<Field("delete", Obj(<<>>))>>)}}

OpenApiDoc(paths) ==
    Obj(<<Field("openapi", V300),
          Field("servers", Arr(<<Obj(<<Field("url", UrlApiX)>>)>>))>> \o Opt("paths", paths))

SwaggerDoc(paths) ==
    Obj(<<Field("swagger", V20), Field("host", Str(<<"api", ".", "x", ".", "com">>))>>
        \o Opt("paths", paths))

PostmanRequests ==
    { Undefined,
      UrlUsers,
      Obj(<<>>),
      Obj(<<Field("method", S("post")), Field("url", UrlUsers)>>),
      Obj(<<Field("method", Num(5)), Field("url", UrlUsers)>>),
      Obj(<<Field("url", Obj(<<Field("raw", UrlTemplate),
                               Field("query", Arr(<<Obj(<<Field("key", S("q"))>>)>>))>>))>>),
      Obj(<<Field("url", UrlUsers), Field("header", Obj(<<>>))>>),
      Obj(<<Field("url", UrlUsers),
            Field("header", Arr(<<Obj(<<Field("key", S("Accept"))>>),
                                  Obj(<<Field("key", S("X")), Field("disabled", Bool(TRUE))>>)>>))>>) }

PostmanItemLists ==
    {Undefined, S("x"), Arr(<<>>), Arr(<<Null>>), Arr(<<Num(5)>>)}
    \cup {Arr(<<Obj(<<Field("name", S("R1"))>> \o Opt("request", r))>>) : r \in PostmanRequests}
    \cup {Arr(<<Obj(<<Field("name", S("F")),
                      Field("item", Arr(<<Obj(<<Field("name", S("R1")),
                                                Field("request", UrlUsers)>>)>>))>>)>>)}

PostmanVariables ==
    { Undefined,
      Obj(<<>>),
      Arr(<<Null>>),
      Arr(<<Obj(<<Field("key", S("baseUrl")), Field("value", NotAUrl)>>)>>) }

PostmanDoc(variable, items) ==
    Obj(<<Field("info", Obj(<<Field("_postman_id", S("abc")), Field("name", S("Shop"))>>))>>
        \o Opt("variable", variable) \o Opt("item", items))

\* decoded values of every JSON kind, and objects whose version fields are not
\* the expected strings
OtherValues ==
    { Null, Num(5), Num(0), Bool(TRUE), Bool(FALSE), S("hello"), Str(<<>>), Arr(<<>>),
      Arr(<<Num(1)>>), Obj(<<>>),
      Obj(<<Field("openapi", Num(3))>>),
      Obj(<<Field("openapi", Bool(TRUE))>>),
      Obj(<<Field("openapi", Null)>>),
      Obj(<<Field("openapi", Str(<<>>))>>),
      Obj(<<Field("openapi", Str(<<"2", ".", "0">>))>>),
      Obj(<<Field("openapi", Str(<<"30">>))>>),
      Obj(<<Field("openapi", Arr(<<S("3")>>))>>),
      Obj(<<Field("swagger", Num(2))>>),
      Obj(<<Field("swagger", Str(<<"2", ".", "0", ".", "1">>))>>),
      Obj(<<Field("swagger", V20), Field("openapi", V300)>>),
      Obj(<<Field("info", Obj(<<Field("_postman_id", S("abc"))>>))>>),
      Obj(<<Field("info", Obj(<<Field("title", S("T"))>>)), Field("item", Arr(<<>>))>>),
      Obj(<<Field("info", S("i")), Field("item", Arr(<<>>))>>),
      Obj(<<Field("item", Arr(<<>>))>>) }

DecodedInputs ==
    OtherValues
    \cup {OpenApiDoc(paths) : paths \in ParsePaths}
    \cup {SwaggerDoc(paths) : paths \in {Undefined, Obj(<<>>),
                                          Obj(<< <<PathUsers, Null>> >>),
                                          Obj(<< <<PathUsers, Obj(<<Field("get", Obj(<<>>))>>)>> >>)}}
    \cup {PostmanDoc(Undefined, items) : items \in PostmanItemLists}
    \cup {PostmanDoc(variable, Arr(<<>>)) : variable \in PostmanVariables}

\* texts that are no JSON
PlainTexts ==
    { Str(<<>>),
      NotAUrl,
      Str(<<"{">>),
      Str(<<"{", Quote, "openapi", Quote, ":">>),
      Str(<<"<", "p", ">", "GET", " ", "/", "users", "<", "/", "p", ">">>),
      Str(<<"see", " ">> \o UrlUsers.v \o <<" ", "and", " ", "/", "api", "/", "v1", "/", "orders">>),
      Str(<<"widget", " ", "/", "a">>) }

\* the decoded inputs given as their JSON text
JsonTexts == {Str(JSONStringify(d)) : d \in DecodedInputs}

ParseInputs == DecodedInputs \cup PlainTexts \cup JsonTexts

InitParse ==
    /\ pc = "start"
    /\ input \in ParseInputs
    /\ opts = Undefined
    /\ out = NotCalled
    /\ out2 = NotCalled
    /\ StoreIdle

\* detectDocType(input)
DetectDocType ==
    /\ pc = "start"
    /\ pc' = "detectDocType"
    /\ out' = detectDocType(input)
    /\ UNCHANGED <<input, opts, out2, storeVars>>

\* parseApiDocumentation(input)
ParseApiDocumentation ==
    /\ pc = "start"
    /\ pc' = "parseApiDocumentation"
    /\ out' = parseApiDocumentation(input, opts)
    /\ UNCHANGED <<input, opts, out2, storeVars>>

NextParse == DetectDocType \/ ParseApiDocumentation

SpecParse == InitParse /\ [][NextParse]_vars

-----------------------------------------------------------------------------
(* Specification SpecExtract: parseOpenAPI and parseSwagger applied to      *)
(* well-formed documents under every kind of options argument, each         *)
(* followed by the same call with the options {}.                           *)

\* operations per small document
MaxOps == 3
\* paths of the large document (seven operations each)
BigPaths == 29

TagA == S("a")
TagB == S("b")

MkOperation(deprecated, tags, security) ==
    Obj(Opt("deprecated", deprecated) \o Opt("tags", tags) \o Opt("security", security))

ExtractOperations ==
    { MkOperation(Undefined, Undefined, Undefined),
      MkOperation(Bool(TRUE), Arr(<<TagA>>), Arr(<<Obj(<<>>)>>)),
      MkOperation(Undefined, Arr(<<TagA>>), Undefined),
      MkOperation(Undefined, Arr(<<TagB>>), Arr(<<Obj(<<>>)>>)),
      MkOperation(Undefined, Arr(<<TagA, TagB>>), Arr(<<>>)) }

PathKey(i) == <<"/", "p", ToString(i)>>

\* operations 2i-1 and 2i are declared under path i as delete and get, in
\* that order
PathItemOf(ops, i) ==
    Obj(<<Field("delete", ops[2 * i - 1])>>
        \o (IF 2 * i <= Len(ops) THEN <<Field("get", ops[2 * i])>> ELSE <<>>))

PathsOf(ops) == Obj([i \in 1..((Len(ops) + 1) \div 2) |-> <<PathKey(i), PathItemOf(ops, i)>>])

OperationLists == UNION {[1..n -> ExtractOperations] : n \in 0..MaxOps}

\* every method declared under every one of BigPaths paths
BigPathItem == Obj([m \in 1..Len(methods) |-> Field(methods[m], MkOperation(Undefined, Arr(<<TagA>>), Undefined))])
BigPathsObject == Obj([i \in 1..BigPaths |-> <<PathKey(i), BigPathItem>>])

DocSecurities == {Undefined, Arr(<<>>), Arr(<<Obj(<<Field("apiKey", Arr(<<>>))>>)>>)}

ExtractDoc(versionField, version, security, paths) ==
    Obj(<<Field(versionField, version)>> \o Opt("security", security) \o <<Field("paths", paths)>>)

ExtractDocs ==
    {ExtractDoc("openapi", V300, sec, PathsOf(ops)) : sec \in DocSecurities, ops \in OperationLists}
    \cup {ExtractDoc("swagger", V20, sec, PathsOf(ops)) : sec \in DocSecurities, ops \in OperationLists}
    \cup {ExtractDoc("openapi", V300, Undefined, BigPathsObject),
          ExtractDoc("swagger", V20, Undefined, BigPathsObject)}

MkOptions(maxEndpoints, includeDeprecated, includeTags, excludeTags) ==
    Obj(Opt("maxEndpoints", maxEndpoints) \o Opt("includeDeprecated", includeDeprecated)
        \o Opt("includeTags", includeTags) \o Opt("excludeTags", excludeTags))

NoOptions == Obj(<<>>)

ExtractOptions ==
    { Undefined,
      NoOptions,
      MkOptions(Num(0), Undefined, Undefined, Undefined),
      MkOptions(Num(1), Undefined, Undefined, Undefined),
      MkOptions(Num(2), Bool(TRUE), Arr(<<>>), Arr(<<>>)),
      MkOptions(Undefined, Undefined, Arr(<<TagA>>), Undefined),
      MkOptions(Undefined, Undefined, Arr(<<TagB>>), Undefined),
      MkOptions(Num(1), Undefined, Arr(<<TagA>>), Undefined),
      MkOptions(Undefined, Undefined, Undefined, Arr(<<TagB>>)),
      MkOptions(Undefined, Bool(TRUE), Arr(<<TagA>>), Arr(<<TagB>>)) }

InitExtract ==
    /\ pc = "start"
    /\ input \in ExtractDocs
    /\ opts \in ExtractOptions
    /\ out = NotCalled
    /\ out2 = NotCalled
    /\ StoreIdle

\* parseOpenAPI(input, opts), or parseOpenAPI(input) when opts is undefined
ParseOpenAPI ==
    /\ pc = "start"
    /\ detectDocType(input) = Return("openapi")
    /\ pc' = "parseOpenAPI"
    /\ out' = parseOpenAPI(input, opts)
    /\ UNCHANGED <<input, opts, out2, storeVars>>

\* parseSwagger(input, opts), or parseSwagger(input) when opts is undefined
ParseSwagger ==
    /\ pc = "start"
    /\ detectDocType(input) = Return("swagger")
    /\ pc' = "parseSwagger"
    /\ out' = parseSwagger(input, opts)
    /\ UNCHANGED <<input, opts, out2, storeVars>>

\* the same parser on the same document with the options {}
ParseUnfiltered ==
    /\ pc \in {"parseOpenAPI", "parseSwagger"}
    /\ pc' = IF pc = "parseOpenAPI" THEN "parseOpenAPI, {}" ELSE "parseSwagger, {}"
    /\ out2' = IF pc = "parseOpenAPI" THEN parseOpenAPI(input, NoOptions)
               ELSE parseSwagger(input, NoOptions)
    /\ UNCHANGED <<input, opts, out, storeVars>>

NextExtract == ParseOpenAPI \/ ParseSwagger \/ ParseUnfiltered

SpecExtract == InitExtract /\ [][NextExtract]_vars

-----------------------------------------------------------------------------
(* Claims checked under SpecExtract *)

ExtractDone == pc \in {"parseOpenAPI", "parseSwagger", "parseOpenAPI, {}", "parseSwagger, {}"}
OpenAPIDone == pc \in {"parseOpenAPI", "parseOpenAPI, {}"}
BothDone == pc \in {"parseOpenAPI, {}", "parseSwagger, {}"}

\* the endpoints of a returned document
EndpointsOf(completion) == completion.val.endpoints.v

\* the number of methods a path item declares
DeclaredMethods(pathItem) ==
    Cardinality({m \in 1..Len(methods) : Truthy(Get(pathItem, K(methods[m])))})

\* N: the number of paths of the document
PathCount(doc) == Len(Entries(Get(doc, K("paths"))))

RECURSIVE MaxOf(_)
MaxOf(set) ==
    IF set = {} THEN 0
    ELSE LET x == CHOOSE y \in set : TRUE
             rest == MaxOf(set \ {x})
         IN  IF x > rest THEN x ELSE rest

\* M: the largest number of methods one path declares
MethodsPerPath(doc) ==
    LET e == Entries(Get(doc, K("paths")))
    IN  MaxOf({DeclaredMethods(e[i][2]) : i \in 1..Len(e)})

MaxEndpointsOption == IF opts = Undefined THEN Undefined ELSE Get(opts, K("maxEndpoints"))

\* C2: for every non-negative integer maxEndpoints in the options,
\* parseOpenAPI returns at most N*M endpoints and never more than maxEndpoints
C2_AtMostMaxEndpoints ==
    (OpenAPIDone /\ MaxEndpointsOption.t = "number" /\ MaxEndpointsOption.v >= 0 /\ ~out.raised)
    => /\ Len(EndpointsOf(out)) <= PathCount(input) * MethodsPerPath(input)
       /\ Len(EndpointsOf(out)) <= MaxEndpointsOption.v

LowerAtom(a) ==
    CASE a = "GET" -> "get" [] a = "POST" -> "post" [] a = "PUT" -> "put"
      [] a = "PATCH" -> "patch" [] a = "DELETE" -> "delete" [] a = "HEAD" -> "head"
      [] OTHER -> "options"

\* the operation object an endpoint was made from
OperationOf(doc, endpoint) ==
    Get(Get(Get(doc, K("paths")), endpoint.path.v), K(LowerAtom(endpoint.method.v[1])))

IsNonEmptyList(x) == x.t = "array" /\ Len(x.v) > 0
IsEmptyList(x) == x.t = "array" /\ Len(x.v) = 0

\* C4: requiresAuth of every endpoint of parseOpenAPI is true exactly when the
\* operation declares a non-empty security list, or the document declares a
\* non-empty security list and the operation does not override it with an
\* empty one
C4_RequiresAuthHonoursOverride ==
    (OpenAPIDone /\ ~out.raised)
    => \A i \in 1..Len(EndpointsOf(out)) :
          LET e == EndpointsOf(out)[i]
              security == Get(OperationOf(input, e), K("security"))
          IN  e.requiresAuth = Bool(
                 \/ IsNonEmptyList(security)
                 \/ IsNonEmptyList(Get(input, K("security"))) /\ ~IsEmptyList(security))

IncludesOnlyTag(tag) == opts = MkOptions(Undefined, Undefined, Arr(<<tag>>), Undefined)

\* C9: for an OpenAPI or Swagger document X and a tag a, every endpoint of
\* parse(X, {includeTags: [a]}) is an endpoint of parse(X, {}) and carries the
\* tag a
C9_IncludeTagsSubset ==
    \A tag \in {TagA, TagB} :
        (BothDone /\ IncludesOnlyTag(tag) /\ ~out.raised /\ ~out2.raised)
        => \A i \in 1..Len(EndpointsOf(out)) :
              LET e == EndpointsOf(out)[i]
              IN  /\ InSeq(e, EndpointsOf(out2))
                  /\ e.tags.t = "array"
                  /\ InSeq(tag, e.tags.v)

\* the filter acted on a Swagger document: an endpoint with the tag is kept
\* and one without tags is left out
C9_Witness ==
    /\ pc = "parseSwagger, {}"
    /\ IncludesOnlyTag(TagA)
    /\ Len(EndpointsOf(out)) >= 1
    /\ \E i \in 1..Len(EndpointsOf(out2)) : EndpointsOf(out2)[i].tags = Undefined

Prefix(q, n) == SubSeq(q, 1, IF Len(q) < n THEN Len(q) ELSE n)

\* C10: called with no options, or with options that do not set
\* maxEndpoints, parseOpenAPI and parseSwagger return at most 200 endpoints,
\* the first 200 operations that pass the filters, and raise no error
C10_DefaultCutoffApplies ==
    (BothDone /\ MaxEndpointsOption = Undefined)
    => /\ ~out.raised
       /\ Len(EndpointsOf(out)) <= DefaultMaxEndpoints
       /\ LET unlimited == IF pc = "parseOpenAPI, {}"
                           THEN parseOpenAPI(input, IF opts = Undefined THEN NoOptions ELSE opts)
                           ELSE parseSwagger(input, IF opts = Undefined THEN NoOptions ELSE opts)
          IN  EndpointsOf(out) = Prefix(EndpointsOf(unlimited), DefaultMaxEndpoints)

\* the fixed method order of the endpoint list
FixedMethodOrder == <<"GET", "POST", "PUT", "PATCH", "DELETE", "HEAD", "OPTIONS">>

\* the position of the endpoint's path among the paths of the document
PathPosition(doc, endpoint) ==
    LET e == Entries(Get(doc, K("paths")))
    IN  CHOOSE p \in 1..Len(e) : e[p][1] = endpoint.path.v

\* the position of the endpoint's method in the fixed order
MethodPosition(endpoint) ==
    CHOOSE m \in 1..Len(FixedMethodOrder) : <<FixedMethodOrder[m]>> = endpoint.method.v

\* C11: the endpoints of parseOpenAPI and parseSwagger are ordered by path in
\* document order and, within one path, by the method order GET, POST, PUT,
\* PATCH, DELETE, HEAD, OPTIONS
C11_EndpointsInDocumentOrder ==
    (ExtractDone /\ ~out.raised)
    => \A i, j \in 1..Len(EndpointsOf(out)) :
          i < j =>
              LET a == EndpointsOf(out)[i]
                  b == EndpointsOf(out)[j]
              IN  \/ PathPosition(input, a) < PathPosition(input, b)
                  \/ /\ a.path = b.path
                     /\ MethodPosition(a) < MethodPosition(b)

\* a path declaring delete before get was emitted as GET, DELETE, followed by
\* an endpoint of the next path
C11_Witness ==
    /\ pc = "parseOpenAPI"
    /\ ~out.raised
    /\ Len(EndpointsOf(out)) = 3
    /\ Entries(Entries(Get(input, K("paths")))[1][2])[1][1] = K("delete")
    /\ EndpointsOf(out)[1].method = S("GET")
    /\ EndpointsOf(out)[2].method = S("DELETE")
    /\ EndpointsOf(out)[3].path = Str(PathKey(2))

\* the options the parser works with
EffectiveOptions == OptionsOrDefault(opts)

\* the call returned before the maxEndpoints cutoff was reached
BelowMaxEndpoints == ~CutoffReached(EffectiveOptions, EndpointsOf(out))

\* the operations the document declares, as <<path, method>>
DeclaredOperations(doc) ==
    LET e == Entries(Get(doc, K("paths")))
    IN  {pm \in {<<e[p][1], methods[m]>> : p \in 1..Len(e), m \in 1..Len(methods)} :
            Truthy(Get(Get(Get(doc, K("paths")), pm[1]), K(pm[2])))}

\* the declared operation an endpoint stands for
EmittedOperation(endpoint) == <<endpoint.path.v, LowerAtom(endpoint.method.v[1])>>

DeclaredOperation(doc, pm) == Get(Get(Get(doc, K("paths")), pm[1]), K(pm[2]))

ListOption(name) ==
    LET list == Get(EffectiveOptions, K(name))
    IN  IF list.t = "array" THEN list.v ELSE <<>>

IsDeprecated(operation) == Get(operation, K("deprecated")) = Bool(TRUE)

\* the operation carries a tag of the list
CarriesTagOf(operation, list) ==
    LET tags == Get(operation, K("tags"))
    IN  /\ tags.t = "array"
        /\ \E i \in 1..Len(tags.v) : \E j \in 1..Len(list) : tags.v[i] = list[j]

DeprecatedAndExcluded(operation) ==
    IsDeprecated(operation) /\ Get(EffectiveOptions, K("includeDeprecated")) # Bool(TRUE)

PassesIncludeTags(operation) ==
    ListOption("includeTags") = <<>> \/ CarriesTagOf(operation, ListOption("includeTags"))

PassesExcludeTags(operation) ==
    ListOption("excludeTags") = <<>> \/ ~CarriesTagOf(operation, ListOption("excludeTags"))

\* C20: below the maxEndpoints cutoff parseOpenAPI emits, once each, exactly
\* the declared operations that are not deprecated with includeDeprecated
\* unset, that carry a tag of a non-empty includeTags, and that carry no tag
\* of a non-empty excludeTags; an operation without tags passes excludeTags
C20_EmitsExactlyUnfiltered ==
    (pc = "parseOpenAPI" /\ ~out.raised /\ BelowMaxEndpoints)
    => LET emitted == {EmittedOperation(EndpointsOf(out)[i]) : i \in 1..Len(EndpointsOf(out))}
       IN  /\ Cardinality(emitted) = Len(EndpointsOf(out))
           /\ emitted = {pm \in DeclaredOperations(input) :
                            /\ ~DeprecatedAndExcluded(DeclaredOperation(input, pm))
                            /\ PassesIncludeTags(DeclaredOperation(input, pm))
                            /\ PassesExcludeTags(DeclaredOperation(input, pm))}

\* with excludeTags [b] a document declaring an untagged, a deprecated and a
\* b-tagged operation yields the untagged one alone
C20_Witness ==
    /\ pc = "parseOpenAPI"
    /\ ~out.raised
    /\ BelowMaxEndpoints
    /\ opts = MkOptions(Undefined, Undefined, Undefined, Arr(<<TagB>>))
    /\ Cardinality(DeclaredOperations(input)) = 3
    /\ \E pm \in DeclaredOperations(input) : IsDeprecated(DeclaredOperation(input, pm))
    /\ \E pm \in DeclaredOperations(input) :
          /\ ~IsDeprecated(DeclaredOperation(input, pm))
          /\ CarriesTagOf(DeclaredOperation(input, pm), <<TagB>>)
    /\ Len(EndpointsOf(out)) = 1
    /\ EndpointsOf(out)[1].tags = Undefined

\* the document with the same security and the same paths object under the
\* other version field
OtherVersion(doc) ==
    IF Truthy(Get(doc, K("openapi")))
    THEN ExtractDoc("swagger", V20, Get(doc, K("security")), Get(doc, K("paths")))
    ELSE ExtractDoc("openapi", V300, Get(doc, K("security")), Get(doc, K("paths")))

\* the (method, path, tags, requiresAuth) entries of a returned document
FilterEntries(completion) ==
    [i \in 1..Len(EndpointsOf(completion)) |->
        LET e == EndpointsOf(completion)[i]
        IN  <<e.method, e.path, e.tags, e.requiresAuth>>]

-----------------------------------------------------------------------------
(* Claims checked under SpecParse *)

DocTypes == {"openapi", "swagger", "postman", "html", "unknown"}
StructuredTypes == {"openapi", "swagger", "postman"}

FailsJsonDecoding(c) == c.t = "string" /\ JSONParse(c).raised

\* the decoded document parseApiDocumentation works on
DecodedDocument(c) == IF c.t = "string" THEN JSONParse(c).val ELSE c

\* the document is classified as one of the given types
DetectedAs(c, types) ==
    /\ ~FailsJsonDecoding(c)
    /\ ~detectDocType(DecodedDocument(c)).raised
    /\ detectDocType(DecodedDocument(c)).val \in types

\* C5: for every decoded document that detectDocType classifies as openapi,
\* swagger or postman, parseApiDocumentation returns a normalized document and
\* does not raise, whatever sub-structures are missing or malformed
C5_ExtractorsNeverRaise ==
    (pc = "parseApiDocumentation" /\ DetectedAs(input, StructuredTypes))
    => /\ ~out.raised
       /\ out.val.metadata.sourceType \in StructuredTypes

\* C6: detectDocType returns one of the five types for every string and every
\* decoded value and never raises; a string that fails JSON decoding yields html
C6_DetectIsTotal ==
    pc = "detectDocType"
    => /\ ~out.raised
       /\ out.val \in DocTypes
       /\ FailsJsonDecoding(input) => out.val = "html"

\* C7: parseApiDocumentation hands a string that fails JSON decoding to the
\* HTML extractor and returns a document of sourceType html; an input detected
\* as openapi, swagger or postman yields a document whose sourceType is the
\* detected type; a structured input detected as unknown raises the
\* unsupported-format error
C7_RoutesByInputKind ==
    pc = "parseApiDocumentation"
    => /\ FailsJsonDecoding(input)
            => (~out.raised /\ out.val.metadata.sourceType = "html")
       /\ DetectedAs(input, StructuredTypes)
            => (~out.raised
                /\ out.val.metadata.sourceType = detectDocType(DecodedDocument(input)).val)
       /\ (input.t # "string" /\ DetectedAs(input, {"unknown"}))
            => (out.raised /\ out.err = "Unsupported document type")

\* the type the classification rules give a decoded value, first match first
FirstMatchingRule(d) ==
    LET openapi == Get(d, K("openapi"))
        swagger == Get(d, K("swagger"))
        info == Get(d, K("info"))
        item == Get(d, K("item"))
    IN  IF openapi.t = "string" /\ StartsWith(openapi, "3") THEN "openapi"
        ELSE IF swagger = V20 THEN "swagger"
        ELSE IF /\ info.t = "object"
                /\ Truthy(Get(info, K("_postman_id")))
                /\ item.t = "array" THEN "postman"
        ELSE "unknown"

\* C19: for a decoded value detectDocType returns the type of the first rule
\* that matches, in the order openapi (openapi field starts with "3"), swagger
\* (swagger field is exactly "2.0"), postman (info object with a Postman
\* identifier and an item collection), and unknown when no rule matches
C19_FirstMatchingRuleWins ==
    (pc = "detectDocType" /\ ~FailsJsonDecoding(input))
    => /\ ~out.raised
       /\ out.val = FirstMatchingRule(DecodedDocument(input))

-----------------------------------------------------------------------------
(* Specification SpecPostman: parsePostman applied to collection trees of   *)
(* request leaves and folders.                                              *)

MaxItems == 3
MaxFolderLeaves == 2

LeafName(i, j) == Str(<<"R", ToString(i), "_", ToString(j)>>)

\* a request item: the j-th leaf under the i-th top-level item
Leaf(i, j) ==
    Obj(<<Field("name", LeafName(i, j)),
          Field("request", Obj(<<Field("method", S("get")), Field("url", UrlUsers)>>))>>)

LeavesOf(i, n) == [j \in 1..n |-> Leaf(i, j)]

\* a request that also has one child request
RequestWithChild(i) ==
    Obj(<<Field("name", LeafName(i, 0)),
          Field("request", UrlOther),
          Field("item", Arr(LeavesOf(i, 1)))>>)

\* a folder of n requests
Folder(i, n) == Obj(<<Field("name", S("F")), Field("item", Arr(LeavesOf(i, n)))>>)

\* a folder holding a folder of one request, then a request
NestedFolder(i) ==
    Obj(<<Field("name", S("G")),
          Field("item", Arr(<<Folder(i, 1), Leaf(i, 2)>>))>>)

\* a request URL with the origin https://api.example.com, and one that is
\* not absolute
UrlExampleUsers == Str(DefaultBaseUrl.v \o <<"/", "users">>)
UrlRelative == Str(<<"/", "users">>)

\* a request item with the given URL
LeafWithUrl(i, url) ==
    Obj(<<Field("name", LeafName(i, 0)),
          Field("request", Obj(<<Field("method", S("get")), Field("url", url)>>))>>)

\* a folder without a name holding one request
NamelessFolder(i) == Obj(<<Field("item", Arr(LeavesOf(i, 1)))>>)

\* a named folder holding a folder without a name
FolderOfNameless(i) == Obj(<<Field("name", S("G")), Field("item", Arr(<<NamelessFolder(i)>>))>>)

\* the i-th top-level item: a request, a request with a child, a folder, a
\* folder of folders, a request with another URL, or a folder without a name
TopItems(i) ==
    {Leaf(i, 0), RequestWithChild(i), NestedFolder(i),
     LeafWithUrl(i, UrlExampleUsers), LeafWithUrl(i, UrlRelative),
     NamelessFolder(i), FolderOfNameless(i)}
    \cup {Folder(i, n) : n \in 0..MaxFolderLeaves}

\* the items of a collection from position i on
RECURSIVE ItemLists(_, _)
ItemLists(i, n) ==
    IF i > n THEN {<<>>}
    ELSE {<<item>> \o rest : item \in TopItems(i), rest \in ItemLists(i + 1, n)}

PostmanInfo == Obj(<<Field("_postman_id", S("abc")), Field("name", S("Shop"))>>)

Collection(items) == Obj(<<Field("info", PostmanInfo), Field("item", Arr(items))>>)

Collections == {Collection(items) : items \in UNION {ItemLists(1, n) : n \in 1..MaxItems}}

PostmanOptions ==
    {Undefined} \cup {MkOptions(Num(n), Undefined, Undefined, Undefined) : n \in 1..MaxItems}

InitPostman ==
    /\ pc = "start"
    /\ input \in Collections
    /\ opts \in PostmanOptions
    /\ out = NotCalled
    /\ out2 = NotCalled
    /\ StoreIdle

ParsePostman ==
    /\ pc = "start"
    /\ pc' = "parsePostman"
    /\ out' = parsePostman(input, opts)
    /\ UNCHANGED <<input, opts, out2, storeVars>>

NextPostman == ParsePostman

SpecPostman == InitPostman /\ [][NextPostman]_vars

\* the names of the request leaves of an item list in traversal order: an
\* item first, then its children
RECURSIVE LeafNames(_, _)
LeafNames(items, i) ==
    IF i > Len(items) THEN <<>>
    ELSE LET item == items[i]
             children == Get(item, K("item"))
         IN  (IF Truthy(Get(item, K("request"))) THEN <<Get(item, K("name"))>> ELSE <<>>)
             \o (IF children.t = "array" THEN LeafNames(children.v, 1) ELSE <<>>)
             \o LeafNames(items, i + 1)

Summaries(eps) == [i \in 1..Len(eps) |-> eps[i].summary]

\* C3: for every positive maxEndpoints, the endpoints parsePostman returns are
\* the first maxEndpoints request leaves of the collection in traversal order:
\* at most maxEndpoints of them, and nothing after the cutoff contributes
C3_PostmanStopsAtCutoff ==
    (pc = "parsePostman" /\ MaxEndpointsOption.t = "number" /\ MaxEndpointsOption.v >= 1)
    => /\ ~out.raised
       /\ Len(EndpointsOf(out)) <= MaxEndpointsOption.v
       /\ Summaries(EndpointsOf(out))
             = Prefix(LeafNames(Get(input, K("item")).v, 1), MaxEndpointsOption.v)

\* the cutoff does not end the traversal: the default options apply, or
\* maxEndpoints is larger than the number of request leaves
BelowCutoff ==
    \/ opts = Undefined
    \/ /\ MaxEndpointsOption.t = "number"
       /\ Len(LeafNames(Get(input, K("item")).v, 1)) < MaxEndpointsOption.v

\* C12: the endpoints parsePostman returns are the request leaves of the item
\* tree in depth-first pre-order of the declared item order
C12_PostmanPreOrder ==
    (pc = "parsePostman" /\ BelowCutoff)
    => /\ ~out.raised
       /\ Summaries(EndpointsOf(out)) = LeafNames(Get(input, K("item")).v, 1)

\* a folder F of [R1, R2] followed by a top-level request R3 gave [R1, R2, R3]
C12_Witness ==
    /\ pc = "parsePostman"
    /\ opts = Undefined
    /\ input = Collection(<<Folder(1, 2), Leaf(2, 0)>>)
    /\ ~out.raised
    /\ Summaries(EndpointsOf(out)) = <<LeafName(1, 1), LeafName(1, 2), LeafName(2, 0)>>

\* a folder nested in a folder was traversed before the request that follows it
C12_NestedWitness ==
    /\ pc = "parsePostman"
    /\ input = Collection(<<NestedFolder(1), Leaf(2, 0)>>)
    /\ ~out.raised
    /\ Summaries(EndpointsOf(out)) = <<LeafName(1, 1), LeafName(1, 2), LeafName(2, 0)>>

\* the URL texts of the request leaves of an item list in traversal order
RECURSIVE LeafUrls(_, _)
LeafUrls(items, i) ==
    IF i > Len(items) THEN <<>>
    ELSE LET item == items[i]
             request == Get(item, K("request"))
             children == Get(item, K("item"))
         IN  (IF Truthy(request) THEN <<RequestUrl(Get(request, K("url")))>> ELSE <<>>)
             \o (IF children.t = "array" THEN LeafUrls(children.v, 1) ELSE <<>>)
             \o LeafUrls(items, i + 1)

\* the origin of the first URL of the list that parses as an absolute URL, or
\* the placeholder when none parses
FirstOrigin(urls) ==
    LET parsing == {i \in 1..Len(urls) : ParseURL(urls[i]).ok}
    IN  IF parsing = {} THEN DefaultBaseUrl
        ELSE Str(ParseURL(urls[FirstIn(parsing)]).origin)

\* C22: when no collection variable supplies the base URL, the baseUrl
\* parsePostman returns is the origin of the first request in traversal order
\* whose URL parses as an absolute URL, whatever that origin is, and the
\* placeholder when no request URL parses
C22_FirstOriginWins ==
    (pc = "parsePostman" /\ BelowCutoff /\ ~out.raised
       /\ ~Truthy(Get(input, K("variable"))))
    => out.val.baseUrl = FirstOrigin(LeafUrls(Get(input, K("item")).v, 1))

\* <<name, tags>> of every request leaf of an item list, the tags being the
\* name of the nearest enclosing folder, and none at the top level
RECURSIVE NearestFolderTags(_, _, _)
NearestFolderTags(items, i, tags) ==
    IF i > Len(items) THEN <<>>
    ELSE LET item == items[i]
             children == Get(item, K("item"))
         IN  (IF Truthy(Get(item, K("request"))) THEN << <<Get(item, K("name")), tags>> >>
              ELSE <<>>)
             \o (IF children.t = "array"
                 THEN NearestFolderTags(children.v, 1, Arr(<<Get(item, K("name"))>>))
                 ELSE <<>>)
             \o NearestFolderTags(items, i + 1, tags)

\* the same with the name of the nearest enclosing folder that has a name,
\* and no tags when no enclosing folder has one
RECURSIVE NearestNamedFolderTags(_, _, _)
NearestNamedFolderTags(items, i, tags) ==
    IF i > Len(items) THEN <<>>
    ELSE LET item == items[i]
             children == Get(item, K("item"))
             name == Get(item, K("name"))
         IN  (IF Truthy(Get(item, K("request"))) THEN << <<name, tags>> >> ELSE <<>>)
             \o (IF children.t = "array"
                 THEN NearestNamedFolderTags(children.v, 1,
                                             IF Truthy(name) THEN Arr(<<name>>) ELSE tags)
                 ELSE <<>>)
             \o NearestNamedFolderTags(items, i + 1, tags)

SummaryAndTags(eps) == [i \in 1..Len(eps) |-> <<eps[i].summary, eps[i].tags>>]

\* C23: every request leaf parsePostman emits from inside a folder has the
\* one-element tag list holding the name of its nearest enclosing folder, and
\* every top-level request leaf has no tags
C23_NearestFolderIsTag ==
    (pc = "parsePostman" /\ ~out.raised)
    => \A i \in 1..Len(EndpointsOf(out)) :
          InSeq(SummaryAndTags(EndpointsOf(out))[i],
                NearestFolderTags(Get(input, K("item")).v, 1, Undefined))

\* C23, amended: the tag is the name of the nearest enclosing folder that has
\* a name; a leaf with no named enclosing folder has no tags
C23_NearestNamedFolderIsTag ==
    (pc = "parsePostman" /\ ~out.raised)
    => \A i \in 1..Len(EndpointsOf(out)) :
          InSeq(SummaryAndTags(EndpointsOf(out))[i],
                NearestNamedFolderTags(Get(input, K("item")).v, 1, Undefined))

\* a folder F inside a folder G, a request of G after it and a top-level
\* request gave the tags [F], [G] and none; a request in a folder without a
\* name inside G gave [G]
C23_Witness ==
    /\ pc = "parsePostman"
    /\ opts = Undefined
    /\ input = Collection(<<NestedFolder(1), Leaf(2, 0), FolderOfNameless(3)>>)
    /\ ~out.raised
    /\ SummaryAndTags(EndpointsOf(out))
          = << <<LeafName(1, 1), Arr(<<S("F")>>)>>,
               <<LeafName(1, 2), Arr(<<S("G")>>)>>,
               <<LeafName(2, 0), Undefined>>,
               <<LeafName(3, 1), Arr(<<S("G")>>)>> >>

-----------------------------------------------------------------------------
(* Specification SpecHtml: parseHTML applied to texts put together from     *)
(* fragments, and to long texts with more matches than the limit.           *)

\* fragments per text
MaxFragments == 3

HtmlFragments ==
    { <<"GET", " ", "/", "users">>,
      <<"post", " ", "/", "api", "/", "v1", "/", "orders">>,
      <<" ">>,
      <<"<", "p", ">">>,
      UrlUsers.v,
      <<"/", "users", "/", "{", "id", "}">>,
      <<"widget", " ", "/", "a">>,
      <<"not", " ", "a", " ", "url">> }

\* the texts of up to n fragments
RECURSIVE FragmentTexts(_)
FragmentTexts(n) ==
    IF n = 0 THEN {<<>>}
    ELSE FragmentTexts(n - 1)
         \cup {f \o t : f \in HtmlFragments, t \in FragmentTexts(n - 1)}

\* "GET /a " n times
RECURSIVE MethodLines(_)
MethodLines(n) == IF n = 0 THEN <<>> ELSE <<"GET", " ", "/", "a", " ">> \o MethodLines(n - 1)

\* "/p1 /p2 ... /pn "
RECURSIVE PathList(_)
PathList(n) == IF n = 0 THEN <<>> ELSE PathList(n - 1) \o PathKey(n) \o <<" ">>

LongTexts ==
    { MethodLines(HtmlMaxEndpoints),
      MethodLines(HtmlMaxEndpoints + 1),
      PathList(HtmlMaxEndpoints + 1),
      MethodLines(HtmlMaxEndpoints - 1) \o PathList(2),
      MethodLines(HtmlMaxEndpoints \div 2) \o PathList(HtmlMaxEndpoints) }

HtmlTexts == {Str(t) : t \in FragmentTexts(MaxFragments) \cup LongTexts}

InitHtml ==
    /\ pc = "start"
    /\ input \in HtmlTexts
    /\ opts = Undefined
    /\ out = NotCalled
    /\ out2 = NotCalled
    /\ StoreIdle

ParseHTML ==
    /\ pc = "start"
    /\ pc' = "parseHTML"
    /\ out' = parseHTML(input)
    /\ UNCHANGED <<input, opts, out2, storeVars>>

NextHtml == ParseHTML

SpecHtml == InitHtml /\ [][NextHtml]_vars

\* none of the three expressions of parseHTML matches anywhere in the text
NothingMatches(text) ==
    /\ FirstBaseUrlMatch(text.v, 1) = <<>>
    /\ EndpointMatches(text.v, 1) = <<>>
    /\ MethodMatches(text.v, 1) = <<>>

\* C13: parseHTML raises on no input string and returns at most 50 endpoints
\* however many matches the text holds; when nothing matches it returns the
\* placeholder base URL and no endpoints
C13_HtmlAtMostFifty ==
    pc = "parseHTML"
    => /\ ~out.raised
       /\ Len(EndpointsOf(out)) <= 50
       /\ NothingMatches(input)
          => /\ out.val.baseUrl = Str(<<"https", ":", "/", "/", "api", ".", "example", ".", "com">>)
             /\ EndpointsOf(out) = <<>>

\* a text with more than 50 method matches gave 50 endpoints
C13_Witness ==
    /\ pc = "parseHTML"
    /\ Len(MethodMatches(input.v, 1)) > 50
    /\ ~out.raised
    /\ Len(EndpointsOf(out)) = 50

-----------------------------------------------------------------------------
(* Specification SpecValidate: validateParsedDoc applied to parsed          *)
(* documents.                                                               *)

MaxDocEndpoints == 3

BaseUrls ==
    { Undefined, Null, Bool(FALSE), Num(0), Num(5), Str(<<>>), Str(<<" ">>),
      NotAUrl, UrlTemplate, Str(PathUsers),
      Str(<<"https", ":", "/", "/">>),
      Str(<<"https", ":", "/", "/", "a", " ", "b">>),
      Str(<<"https", ":", "/", "/", "api", ".", "x", ".", "com", ":", "x">>),
      Str(<<"http", ":", "/", "/", "api", ".", "x", ".", "com", ":", "8080">>),
      Str(<<"mailto", ":", "x">>),
      DefaultBaseUrl, UrlApiX, UrlUsers, UrlOther }

DocEndpoint(i) ==
    [method |-> S("GET"),
     path |-> Str(PathKey(i)),
     summary |-> Undefined,
     description |-> Undefined,
     parameters |-> <<>>,
     requestBody |-> Undefined,
     responses |-> Undefined,
     operationId |-> Undefined,
     tags |-> Undefined,
     requiresAuth |-> Undefined]

EndpointLists ==
    {Undefined, Null, Num(5)} \cup {Arr([i \in 1..n |-> DocEndpoint(i)]) : n \in 0..MaxDocEndpoints}

ParsedDocs ==
    {[baseUrl |-> b,
      endpoints |-> e,
      metadata |-> [title |-> Undefined, version |-> Undefined,
                    description |-> Undefined, sourceType |-> "openapi"]] :
        b \in BaseUrls, e \in EndpointLists}

InitValidate ==
    /\ pc = "start"
    /\ input \in ParsedDocs
    /\ opts = Undefined
    /\ out = NotCalled
    /\ out2 = NotCalled
    /\ StoreIdle

ValidateParsedDoc ==
    /\ pc = "start"
    /\ pc' = "validateParsedDoc"
    /\ out' = validateParsedDoc(input)
    /\ UNCHANGED <<input, opts, out2, storeVars>>

NextValidate == ValidateParsedDoc

SpecValidate == InitValidate /\ [][NextValidate]_vars

\* the three checks, each with its error string
BaseUrlMissing(doc) == doc.baseUrl \in {Undefined, Null, Bool(FALSE), Num(0), Str(<<>>)}
BaseUrlUnparseable(doc) == ~ParseURL(doc.baseUrl).ok
NoEndpoints(doc) == doc.endpoints \in {Undefined, Null} \/ doc.endpoints = Arr(<<>>)

FailingChecks(doc) ==
    (IF BaseUrlMissing(doc) THEN {"Missing base URL"} ELSE {})
    \cup (IF BaseUrlUnparseable(doc) THEN {"Invalid base URL format"} ELSE {})
    \cup (IF NoEndpoints(doc) THEN {"No endpoints found"} ELSE {})

\* C8: the errors of validateParsedDoc are exactly one string per failing
\* check (base URL missing, base URL unparseable, no endpoints), valid is true
\* exactly when no check fails, and a document with baseUrl "not a url" and no
\* endpoints is invalid with exactly two errors
C8_ValidateReportsEveryFailure ==
    pc = "validateParsedDoc"
    => /\ {out.errors[i] : i \in 1..Len(out.errors)} = FailingChecks(input)
       /\ Len(out.errors) = Cardinality(FailingChecks(input))
       /\ out.valid <=> FailingChecks(input) = {}
       /\ (input.baseUrl = NotAUrl /\ input.endpoints = Arr(<<>>))
            => (~out.valid /\ Len(out.errors) = 2)

\* the document of the example was validated and got its two errors
C8_Witness ==
    /\ pc = "validateParsedDoc"
    /\ input.baseUrl = NotAUrl
    /\ input.endpoints = Arr(<<>>)
    /\ out.errors = <<"No endpoints found", "Invalid base URL format">>

-----------------------------------------------------------------------------
(* The context store, src/unnamed/part_008.  localStorage is the variable   *)
(* storage; win tells whether the caller runs in a browser (typeof window   *)
(* is not 'undefined') or in a server route.  The store is kept as a record *)
(* and a context as a record of JS values: a field that JSON.stringify      *)
(* leaves out reads as undefined after JSON.parse, as it did before.        *)

MAX_CONTEXTS == 20

EmptyStore(now) == [contexts |-> <<>>, activeContextId |-> Null, lastUpdated |-> now]

loadContextStore(win, ls, now) ==
    IF ~win THEN EmptyStore(now)
    ELSE IF ~ls.present THEN EmptyStore(now)
    ELSE ls.store

\* the content of localStorage after the call
saveContextStore(win, ls, store) ==
    IF ~win THEN ls ELSE [present |-> TRUE, store |-> store]

\* contexts.findIndex(c => c.id === id), counted from 1; 0 when there is none
RECURSIVE FindIndexFrom(_, _, _)
FindIndexFrom(contexts, id, i) ==
    IF i > Len(contexts) THEN 0
    ELSE IF contexts[i].id = id THEN i
    ELSE FindIndexFrom(contexts, id, i + 1)

findIndex(contexts, id) == FindIndexFrom(contexts, id, 1)

\* the store of a saveContext that adds the context whatever the store holds
SavedStoreAlwaysAdds(store, context, now) ==
    [store EXCEPT !.contexts = Prefix(<<context>> \o store.contexts, MAX_CONTEXTS),
                  !.lastUpdated = now]

\* the store saveContext returns
SavedStore(store, context, now) ==
    LET existingIndex == findIndex(store.contexts, context.id)
        contexts ==
            IF existingIndex >= 1
            THEN [store.contexts EXCEPT ![existingIndex] = [context EXCEPT !.lastUpdated = Num(now)]]
            ELSE Prefix(<<context>> \o store.contexts, MAX_CONTEXTS)
    IN  [store EXCEPT !.contexts = contexts, !.lastUpdated = now]

saveContext(win, ls, context, now) ==
    saveContextStore(win, ls, SavedStore(loadContextStore(win, ls, now), context, now))

\* store.contexts.filter(c => c.id !== contextId)
RECURSIVE FilterOut(_, _)
FilterOut(contexts, contextId) ==
    IF contexts = <<>> THEN <<>>
    ELSE (IF Head(contexts).id = contextId THEN <<>> ELSE <<Head(contexts)>>)
         \o FilterOut(Tail(contexts), contextId)

deleteContext(win, ls, contextId, now) ==
    LET store == loadContextStore(win, ls, now)
    IN  saveContextStore(win, ls,
            [contexts |-> FilterOut(store.contexts, contextId),
             activeContextId |-> IF store.activeContextId = contextId
                                 THEN Null ELSE store.activeContextId,
             lastUpdated |-> now])

setActiveContext(win, ls, contextId, now) ==
    LET store == loadContextStore(win, ls, now)
    IN  saveContextStore(win, ls,
            [store EXCEPT
                !.activeContextId =
                    IF contextId # Null /\ findIndex(store.contexts, contextId) >= 1
                    THEN contextId ELSE Null,
                !.lastUpdated = now])

\* the context getActiveContext returns, as a list of no or one context
getActiveContext(win, ls, now) ==
    LET store == loadContextStore(win, ls, now)
        i == findIndex(store.contexts, store.activeContextId)
    IN  IF ~Truthy(store.activeContextId) \/ i = 0 THEN <<>> ELSE <<store.contexts[i]>>

\* contexts.sort((a, b) => b.lastUpdated - a.lastUpdated): the context put
\* behind the contexts that are not older than it, before the older ones
RECURSIVE SortedByLastUpdated(_)
SortedByLastUpdated(contexts) ==
    IF contexts = <<>> THEN <<>>
    ELSE LET rest == SortedByLastUpdated(Tail(contexts))
             c == Head(contexts)
             newer == {i \in 1..Len(rest) : rest[i].lastUpdated.v > c.lastUpdated.v}
             k == IF newer = {} THEN 0
                  ELSE CHOOSE i \in newer : \A j \in newer : j <= i
         IN  SubSeq(rest, 1, k) \o <<c>> \o SubSeq(rest, k + 1, Len(rest))

getAllContexts(win, ls, now) == SortedByLastUpdated(loadContextStore(win, ls, now).contexts)

clearAllContexts(win, ls, now) == saveContextStore(win, ls, EmptyStore(now))

\* `ctx_${Date.now()}_${Math.random().toString(36).substr(2, 9)}`
generateContextId(now, random) == Str(<<"ctx_", ToString(now), "_", random>>)

\* the ApiContext a decoded JSON object is read as
ContextOf(obj) ==
    [id |-> Get(obj, K("id")),
     name |-> Get(obj, K("name")),
     baseUrl |-> Get(obj, K("baseUrl")),
     sourceUrl |-> Get(obj, K("sourceUrl")),
     sourceType |-> Get(obj, K("sourceType")),
     version |-> Get(obj, K("version")),
     description |-> Get(obj, K("description")),
     endpoints |-> Get(obj, K("endpoints")),
     lastUpdated |-> Get(obj, K("lastUpdated")),
     createdAt |-> Get(obj, K("createdAt"))]

\* importContext: the content of localStorage after the call and whether the
\* call raised
importContext(win, ls, jsonString, now, random) ==
    LET decoded == JSONParse(jsonString)
        context == ContextOf(decoded.val)
        imported == [context EXCEPT !.id = generateContextId(now, random),
                                    !.createdAt = Num(now),
                                    !.lastUpdated = Num(now)]
    IN  IF decoded.raised \/ IsNullish(decoded.val) THEN [ls |-> ls, raised |-> TRUE]
        ELSE IF ~Truthy(context.name) \/ ~Truthy(context.baseUrl)
                \/ context.endpoints.t # "array"
             THEN [ls |-> ls, raised |-> TRUE]
        ELSE [ls |-> saveContext(win, ls, imported, now), raised |-> FALSE]

-----------------------------------------------------------------------------
(* The routes POST /api/context/fetch, /api/context/upload and              *)
(* /api/context/set.  A route answers with a response; the size in bytes of *)
(* a content is an input of its own, the texts of the model being short.    *)

MaxContentBytes == 2 * 1024 * 1024

\* an answer; steps lists what the handler did before it answered: the
\* outbound fetch, the call of parseApiDocumentation, the call of
\* validateParsedDoc
Response(route, status, error) ==
    [route |-> route, status |-> status, error |-> error, context |-> Undefined,
     steps |-> <<>>]

\* the answer of the rest of the handler, reached after the given step
After(step, answer) == [answer EXCEPT !.steps = <<step>> \o @]

blockedHosts ==
    { <<"localhost">>, <<"127", ".", "0", ".", "0", ".", "1">>,
      <<"0", ".", "0", ".", "0", ".", "0">>, <<":", ":", "1">>,
      <<"169", ".", "254", ".">>, <<"10", ".">>, <<"172", ".", "16", ".">>,
      <<"192", ".", "168", ".">> }

\* hostname.includes(blocked), on atoms
HostIncludes(hostname, blocked) ==
    \E i \in 1..Len(hostname) :
        /\ i + Len(blocked) - 1 <= Len(hostname)
        /\ SubSeq(hostname, i, i + Len(blocked) - 1) = blocked

\* the ApiContext both routes build from a valid parsed document
RouteContext(parsed, id, name, sourceUrl, now) ==
    [id |-> id,
     name |-> name,
     baseUrl |-> parsed.baseUrl,
     sourceUrl |-> sourceUrl,
     sourceType |-> S(parsed.metadata.sourceType),
     version |-> parsed.metadata.version,
     description |-> parsed.metadata.description,
     endpoints |-> parsed.endpoints,
     lastUpdated |-> Num(now),
     createdAt |-> Num(now)]

\* the answer with the context made of a valid parsed document
ContextResponse(route, parsed, fallbackName, sourceUrl, now, random) ==
    [route |-> route, status |-> 200, error |-> "", steps |-> <<>>,
     context |-> RouteContext(parsed, generateContextId(now, random),
                              IF Truthy(parsed.metadata.title)
                              THEN parsed.metadata.title ELSE fallbackName,
                              sourceUrl, now)]

\* validate, then create the context
Validated(route, parsed, fallbackName, sourceUrl, now, random) ==
    IF parsed.raised THEN Response(route, 400, "Failed to parse documentation")
    ELSE IF ~validateParsedDoc(parsed.val).valid
         THEN After("validateParsedDoc",
                    Response(route, 400, "Invalid documentation structure"))
    ELSE After("validateParsedDoc",
               ContextResponse(route, parsed.val, fallbackName, sourceUrl, now, random))

\* ParseAndValidate calling parseApiDocumentation before the size check
ParseBeforeSizeCheck(route, content, size, tooLarge, fallbackName, sourceUrl, now, random) ==
    After("parseApiDocumentation",
          IF size > MaxContentBytes THEN Response(route, 413, tooLarge)
          ELSE Validated(route, parseApiDocumentation(content, Undefined), fallbackName,
                         sourceUrl, now, random))

\* size check, parse, validate and context creation, shared by both routes
ParseAndValidate(route, content, size, tooLarge, fallbackName, sourceUrl, now, random) ==
    IF size > MaxContentBytes THEN Response(route, 413, tooLarge)
    ELSE After("parseApiDocumentation",
               Validated(route, parseApiDocumentation(content, Undefined), fallbackName,
                         sourceUrl, now, random))

\* the content type names YAML or the URL ends with .yaml or .yml
IsYaml(url, contentType) ==
    \/ contentType = "yaml"
    \/ /\ contentType = "text"
       /\ url.t = "string" /\ Len(url.v) >= 2
       /\ SubSeq(url.v, Len(url.v) - 1, Len(url.v)) \in {<<".", "yaml">>, <<".", "yml">>}

\* the route from the outbound fetch on
Fetched(route, url, targetUrl, upstream, decoded, yaml, now, random) ==
    IF upstream.kind = "unreachable"
    THEN Response(route, 500, "Failed to fetch and parse documentation")
    ELSE IF upstream.kind = "not ok"
         THEN Response(route, upstream.status, "Failed to fetch documentation")
    ELSE IF upstream.contentType = "json" /\ decoded.raised
         THEN Response(route, 500, "Failed to fetch and parse documentation")
    ELSE IF yaml /\ decoded.raised
         THEN Response(route, 400, "YAML parsing not yet supported")
    ELSE ParseAndValidate(route,
                          IF upstream.contentType = "json" \/ yaml
                          THEN decoded.val ELSE upstream.body,
                          upstream.size,
                          "Documentation file too large (max 2MB)",
                          Str(<<"API from ">> \o targetUrl.hostname),
                          url, now, random)

\* the route from the URL check on
FetchUrl(route, url, targetUrl, upstream, now, random) ==
    IF ~Truthy(url) THEN Response(route, 400, "URL is required")
    ELSE IF ~targetUrl.ok THEN Response(route, 400, "Invalid URL format")
    ELSE IF \E blocked \in blockedHosts : HostIncludes(targetUrl.hostname, blocked)
         THEN Response(route, 403, "Requests to local/private networks are not allowed")
    ELSE After("fetch",
               Fetched(route, url, targetUrl, upstream, JSONParse(upstream.body),
                       IsYaml(url, upstream.contentType), now, random))

\* POST of the fetch route: body is the request body, upstream what the
\* outbound fetch meets
FetchPOST(body, upstream, now, random) ==
    IF IsNullish(body) THEN Response("fetch", 500, "Failed to fetch and parse documentation")
    ELSE FetchUrl("fetch", Get(body, K("url")), ParseURL(Get(body, K("url"))),
                  upstream, now, random)

\* POST of the upload route
UploadPOST(body, size, now, random) ==
    IF IsNullish(body) THEN Response("upload", 500, "Failed to process uploaded file")
    ELSE IF ~Truthy(Get(body, K("content")))
         THEN Response("upload", 400, "File content is required")
    ELSE ParseAndValidate("upload", Get(body, K("content")), size,
                          "File too large (max 2MB)",
                          IF Truthy(Get(body, K("filename")))
                          THEN Get(body, K("filename")) ELSE S("Uploaded API"),
                          Undefined, now, random)

\* GET of the list route: getAllContexts and getActiveContext run on the
\* server
ListGET(ls, now) ==
    LET contexts == getAllContexts(FALSE, ls, now)
        activeContext == getActiveContext(FALSE, ls, now)
    IN  [contexts |-> contexts,
         activeContextId |-> IF activeContext # <<>> /\ Truthy(activeContext[1].id)
                             THEN activeContext[1].id ELSE Null,
         count |-> Len(contexts)]

-----------------------------------------------------------------------------
(* Specification SpecStore: the routes answering requests on the server and *)
(* the store operations running in the browser.  Every step reads the clock *)
(* one tick later.                                                          *)

MaxClock == 3

RandomPart == "k3j9x2m1q"

UrlDocs == Str(UrlApiX.v \o <<"/", "openapi", ".", "json">>)
UrlYaml == Str(UrlApiX.v \o <<"/", "openapi", ".", "yaml">>)
UrlLocal == Str(<<"http", ":", "/", "/", "localhost", ":", "3000", "/", "docs">>)
UrlPrivate == Str(<<"http", ":", "/", "/", "192", ".", "168", ".", "1", ".", "5", "/", "docs">>)

FetchBodies ==
    {Null, Obj(<<>>)} \cup {Obj(<<Field("url", u)>>) : u \in {NotAUrl, UrlLocal, UrlPrivate, UrlDocs, UrlYaml}}

GetUsers == Obj(<<Field("get", Obj(<<Field("summary", S("List"))>>))>>)

\* documents that validate, documents that do not and texts
Contents ==
    { OpenApiDoc(Obj(<< <<PathUsers, GetUsers>> >>)),
      OpenApiDoc(Obj(<<>>)),
      PostmanDoc(Arr(<<Obj(<<Field("key", S("baseUrl")), Field("value", NotAUrl)>>)>>),
                 Arr(<<Obj(<<Field("name", S("R1")), Field("request", UrlUsers)>>)>>)),
      Obj(<<>>),
      Null }

Texts ==
    { Str(<<"{">>),
      NotAUrl,
      Str(<<"<", "p", ">", "GET", " ", "/", "users", "<", "/", "p", ">">>) }

Sizes == {1024, MaxContentBytes, MaxContentBytes + 1}

\* what the outbound fetch meets: no answer, an answer that is not ok, or a
\* body served under a content type
Served(contentType, bodies) ==
    { [kind |-> "ok", status |-> 200, contentType |-> contentType, body |-> b, size |-> n] :
        b \in bodies, n \in Sizes }

Upstreams ==
    { [kind |-> k, status |-> 404, contentType |-> "text", body |-> Str(<<>>), size |-> 0] :
        k \in {"unreachable", "not ok"} }
    \cup Served("json", {Str(<<"{">>)} \cup {Str(JSONStringify(d)) : d \in Contents})
    \cup Served("yaml", {Str(<<"{">>), Str(JSONStringify(OpenApiDoc(Obj(<<>>))))})
    \cup Served("text", Texts)

UploadBodies ==
    {Null, Obj(<<>>)}
    \cup {Obj(<<Field("content", c)>> \o Opt("filename", f)) :
            c \in Contents \cup Texts, f \in {Undefined, S("shop.json")}}

\* a context as exportContext writes it
ExportedContext(name, baseUrl, endpoints) ==
    Obj(Opt("id", S("ctx_0_old")) \o Opt("name", name) \o Opt("baseUrl", baseUrl)
        \o Opt("endpoints", endpoints))

ImportTexts ==
    { Str(<<"{">>), Str(<<"null">>) }
    \cup { Str(JSONStringify(ExportedContext(name, baseUrl, endpoints))) :
             name \in {Undefined, S("x")},
             baseUrl \in {Undefined, NotAUrl, UrlApiX},
             endpoints \in {Undefined, Obj(<<>>), Arr(<<>>),
                            Arr(<<Obj(<<Field("method", S("GET")),
                                        Field("path", Str(PathUsers))>>)>>)} }

StoredIds == {storage.store.contexts[i].id : i \in 1..Len(storage.store.contexts)}
ContextIds == StoredIds \cup {S("ctx_0_none")}

InitStore ==
    /\ pc = "start"
    /\ input = Undefined
    /\ opts = Undefined
    /\ out = NotCalled
    /\ out2 = NotCalled
    /\ StoreIdle

\* a step at time clock + 1
Tick == clock < MaxClock /\ clock' = clock + 1

FetchRoute ==
    /\ Tick
    /\ \E body \in FetchBodies, upstream \in Upstreams :
          response' = FetchPOST(body, upstream, clock', RandomPart)
    /\ pc' = "fetch"
    /\ UNCHANGED <<storage, setResponse, input, opts, out, out2, idleVars>>

UploadRoute ==
    /\ Tick
    /\ \E body \in UploadBodies, size \in Sizes :
          response' = UploadPOST(body, size, clock', RandomPart)
    /\ pc' = "upload"
    /\ UNCHANGED <<storage, setResponse, input, opts, out, out2, idleVars>>

\* POST of the set route with a context in the body: saveContext and
\* setActiveContext run on the server
SetPOSTContext(context) ==
    /\ storage' = setActiveContext(FALSE, saveContext(FALSE, storage, context, clock'),
                                   context.id, clock')
    /\ setResponse' = [status |-> 200, message |-> "Context saved and set as active",
                       contextId |-> context.id]

\* POST of the set route with no context in the body
SetPOSTContextId(contextId) ==
    IF Truthy(contextId)
    THEN /\ storage' = setActiveContext(FALSE, storage, contextId, clock')
         /\ setResponse' = [status |-> 200, message |-> "Active context updated",
                            contextId |-> contextId]
    ELSE IF contextId = Null
    THEN /\ storage' = setActiveContext(FALSE, storage, Null, clock')
         /\ setResponse' = [status |-> 200, message |-> "Active context cleared",
                            contextId |-> Null]
    ELSE /\ storage' = storage
         /\ setResponse' = [status |-> 400,
                            message |-> "Either contextId or context must be provided",
                            contextId |-> Undefined]

\* the body holds the context the fetch or upload route answered with, a
\* context the client made up, or a context id, null or nothing
SetRoute ==
    /\ Tick
    /\ \/ response.status = 200 /\ SetPOSTContext(response.context)
       \/ \E text \in ImportTexts :
             /\ Truthy(JSONParse(text).val)
             /\ SetPOSTContext(ContextOf(JSONParse(text).val))
       \/ \E contextId \in ContextIds \cup {Null, Undefined} : SetPOSTContextId(contextId)
    /\ pc' = "set"
    /\ UNCHANGED <<response, input, opts, out, out2, idleVars>>

\* GET /api/context/list
ListRoute ==
    /\ Tick
    /\ out' = Return(ListGET(storage, clock'))
    /\ pc' = "list"
    /\ UNCHANGED <<storage, response, setResponse, input, opts, out2, idleVars>>

\* updateContext of useApiContext, called in the browser with the context of
\* the route's answer once the set route has answered
UpdateContext ==
    /\ Tick
    /\ response.status = 200
    /\ setResponse.status = 200
    /\ setResponse.contextId = response.context.id
    /\ storage' = setActiveContext(TRUE, saveContext(TRUE, storage, response.context, clock'),
                                   response.context.id, clock')
    /\ pc' = "updateContext"
    /\ UNCHANGED <<response, setResponse, input, opts, out, out2, idleVars>>

ImportContext ==
    /\ Tick
    /\ \E jsonString \in ImportTexts :
          storage' = importContext(TRUE, storage, jsonString, clock', RandomPart).ls
    /\ pc' = "importContext"
    /\ UNCHANGED <<response, setResponse, input, opts, out, out2, idleVars>>

DeleteContext ==
    /\ Tick
    /\ \E contextId \in ContextIds : storage' = deleteContext(TRUE, storage, contextId, clock')
    /\ pc' = "deleteContext"
    /\ UNCHANGED <<response, setResponse, input, opts, out, out2, idleVars>>

SetActiveContext ==
    /\ Tick
    /\ \E contextId \in ContextIds \cup {Null} :
          storage' = setActiveContext(TRUE, storage, contextId, clock')
    /\ pc' = "setActiveContext"
    /\ UNCHANGED <<response, setResponse, input, opts, out, out2, idleVars>>

ClearAllContexts ==
    /\ Tick
    /\ storage' = clearAllContexts(TRUE, storage, clock')
    /\ pc' = "clearAllContexts"
    /\ UNCHANGED <<response, setResponse, input, opts, out, out2, idleVars>>

NextStore ==
    \/ FetchRoute
    \/ UploadRoute
    \/ SetRoute
    \/ ListRoute
    \/ UpdateContext
    \/ ImportContext
    \/ DeleteContext
    \/ SetActiveContext
    \/ ClearAllContexts

SpecStore == InitStore /\ [][NextStore]_vars

\* the contexts the store holds
StoredContexts == storage.store.contexts

ValidContext(context) == IsNonEmptyList(context.endpoints) /\ ParseURL(context.baseUrl).ok

\* C1: every ApiContext in the context store has at least one endpoint and a
\* baseUrl that parses as a URL, and so has every context a route answers with
C1_StoredContextsAreValid ==
    /\ \A i \in 1..Len(StoredContexts) : ValidContext(StoredContexts[i])
    /\ response.status = 200 => ValidContext(response.context)

\* the set route answered that it saved a context and made it active
SavedAndSetActive ==
    /\ setResponse.status = 200
    /\ setResponse.message = "Context saved and set as active"

\* C28: after the set route answered 'Context saved and set as active', a
\* GET of the list route returns the context with activeContextId equal to
\* its id, and getActiveContext on the server returns it
C28_ServerStoreHoldsSavedContext ==
    (pc = "list" /\ SavedAndSetActive)
    => /\ out.val.activeContextId = setResponse.contextId
       /\ \E i \in 1..Len(out.val.contexts) : out.val.contexts[i].id = setResponse.contextId
       /\ getActiveContext(FALSE, storage, clock) # <<>>

-----------------------------------------------------------------------------
(* Context injection, src/unnamed/part_007, and the part of the converse    *)
(* route that injects the active context into the prompt.                   *)

MAX_ENDPOINTS_TO_INJECT == 50

\* the text of an element in Array.prototype.join: nothing for null and undefined
JoinText(x) == IF IsNullish(x) THEN <<>> ELSE TemplateText(x)

\* required.map(p => p.name).join(', ')
RECURSIVE JoinNames(_, _)
JoinNames(ps, i) ==
    IF i > Len(ps) THEN <<>>
    ELSE (IF i > 1 THEN <<", ">> ELSE <<>>) \o JoinText(ps[i].name) \o JoinNames(ps, i + 1)

\* endpoint.parameters.filter(p => p.required)
RequiredParameters(endpoint) == SelectSeq(endpoint.parameters, LAMBDA p : Truthy(p.required))

RequiresText(required) ==
    IF Len(required) > 0 THEN <<" (requires: ">> \o JoinNames(required, 1) \o <<")">> ELSE <<>>

formatEndpointForAI(endpoint) ==
    TemplateText(endpoint.method) \o <<" ">> \o TemplateText(endpoint.path)
    \o (IF Truthy(endpoint.summary) THEN <<" - ">> \o TemplateText(endpoint.summary) ELSE <<>>)
    \o RequiresText(RequiredParameters(endpoint))

\* endpoint.tags?.[0] || 'Other', as the key of the group
GroupTag(endpoint) == OrElse(OptIndex0(endpoint.tags), S("Other")).v

\* keys the empty object grouped inherits from Object.prototype: grouped[tag]
\* is truthy for them before any group is stored
InheritedKeys ==
    {<<"constructor">>, <<"toString">>, <<"valueOf">>, <<"hasOwnProperty">>, <<"__proto__">>}

\* endpoints.forEach: the keys of grouped in the order they were added, or a
\* TypeError when grouped[tag].push is called on an inherited property
RECURSIVE GroupKeys(_, _, _)
GroupKeys(endpoints, i, keys) ==
    IF i > Len(endpoints) THEN [keys |-> keys, raised |-> FALSE]
    ELSE IF InSeq(GroupTag(endpoints[i]), keys) THEN GroupKeys(endpoints, i + 1, keys)
    ELSE IF GroupTag(endpoints[i]) \in InheritedKeys THEN [keys |-> keys, raised |-> TRUE]
    ELSE GroupKeys(endpoints, i + 1, Append(keys, GroupTag(endpoints[i])))

\* a key that is an array index: Object.entries lists these first, ascending
IsIndexKey(k) == Len(k) = 1 /\ k[1] \in NumberAtoms

RECURSIVE AscendingKeys(_)
AscendingKeys(keys) ==
    IF keys = {} THEN <<>>
    ELSE LET k == CHOOSE x \in keys : \A y \in keys : NumberOf(x[1]) <= NumberOf(y[1])
         IN  <<k>> \o AscendingKeys(keys \ {k})

\* the key order of Object.entries(grouped)
OwnKeyOrder(keys) ==
    AscendingKeys({keys[j] : j \in {n \in 1..Len(keys) : IsIndexKey(keys[n])}})
    \o SelectSeq(keys, LAMBDA k : ~IsIndexKey(k))

EndpointLine(endpoint) == <<Bullet>> \o formatEndpointForAI(endpoint) \o <<"\n">>

\* tagEndpoints.forEach: the lines of the endpoints of one group
RECURSIVE EndpointLines(_, _, _)
EndpointLines(endpoints, i, tag) ==
    IF i > Len(endpoints) THEN <<>>
    ELSE (IF GroupTag(endpoints[i]) = tag THEN EndpointLine(endpoints[i]) ELSE <<>>)
         \o EndpointLines(endpoints, i + 1, tag)

GroupText(endpoints, tag) == <<"\n[">> \o tag \o <<"]\n">> \o EndpointLines(endpoints, 1, tag)

\* Object.entries(grouped).forEach
RECURSIVE GroupTexts(_, _, _)
GroupTexts(endpoints, keys, g) ==
    IF g > Len(keys) THEN <<>>
    ELSE GroupText(endpoints, keys[g]) \o GroupTexts(endpoints, keys, g + 1)

PromptHead(context, shown) ==
    <<"\n\nAPI CONTEXT LOADED:\n">>
    \o <<"API Name: ">> \o TemplateText(context.name) \o <<"\n">>
    \o <<"Base URL: ">> \o TemplateText(context.baseUrl) \o <<"\n">>
    \o (IF Truthy(context.description)
        THEN <<"Description: ">> \o TemplateText(context.description) \o <<"\n">> ELSE <<>>)
    \o <<"\nAvailable Endpoints (", ToString(shown), " of ",
         ToString(Len(context.endpoints.v)), "):\n">>

PromptTail ==
    <<"\nIMPORTANT: When generating API requests, you MUST use only the endpoints listed above. ",
      "Always construct full URLs by combining the base URL with the endpoint path. ",
      "If a required parameter is mentioned, include it in the request.\n">>

FormattedPrompt(context, endpoints, groups) ==
    IF groups.raised THEN Throw("TypeError")
    ELSE Return(Str(PromptHead(context, Len(endpoints))
                    \o GroupTexts(endpoints, OwnKeyOrder(groups.keys), 1)
                    \o PromptTail))

FormatEndpoints(context, endpoints) ==
    FormattedPrompt(context, endpoints, GroupKeys(endpoints, 1, <<>>))

formatContextForAI(context) ==
    FormatEndpoints(context, Slice(context.endpoints.v, MAX_ENDPOINTS_TO_INJECT))

\* the quotient rounded down
FloorDiv(n, d) == n \div d
\* Math.ceil(n / d) of a length n
CeilDiv(n, d) == (n + d - 1) \div d

TokensOf(formatted) ==
    IF formatted.raised THEN formatted
    ELSE Return(Num(CeilDiv(TextLen(formatted.val.v), 4)))

estimateContextTokens(context) == TokensOf(formatContextForAI(context))

DefaultMaxTokens == 2000

TooLarge(estimate, maxTokens) ==
    IF estimate.raised THEN estimate ELSE Return(Bool(estimate.val.v > maxTokens.v))

isContextTooLarge(context, maxTokens) ==
    TooLarge(estimateContextTokens(context),
             IF maxTokens = Undefined THEN Num(DefaultMaxTokens) ELSE maxTokens)

DefaultTrimEndpoints == 30

\* the trim that always keeps the default number of endpoints
trimContextIgnoresMaximum(context, maxEndpoints) ==
    [context EXCEPT !.endpoints = Arr(Slice(@.v, DefaultTrimEndpoints))]
trimContextForInjection(context, maxEndpoints) ==
    [context EXCEPT !.endpoints =
        Arr(Slice(@.v, IF maxEndpoints = Undefined THEN DefaultTrimEndpoints
                       ELSE maxEndpoints.v))]

\* the endpoints the converse route trims a too large context to
ConverseTrimEndpoints == 30

\* contextForAI of the converse route, formatted: the text appended to the
\* user prompt
InjectContext(apiContext, tooLarge) ==
    IF tooLarge.raised THEN tooLarge
    ELSE formatContextForAI(IF tooLarge.val.v
                            THEN trimContextForInjection(apiContext, Num(ConverseTrimEndpoints))
                            ELSE apiContext)

\* the context prompt of POST /api/ai/converse for the list of no or one
\* context getActiveContext returned: undefined when there is no context
ConverseContextPrompt(active) ==
    IF active = <<>> THEN Return(Undefined)
    ELSE InjectContext(active[1], isContextTooLarge(active[1], Undefined))

-----------------------------------------------------------------------------
(* Specification SpecInject: the functions of the context injection and the *)
(* injection step of the converse route, applied to a context that is       *)
(* stored and active.                                                       *)

\* endpoints per small context
MaxInjectEndpoints == 2

Param(name, required) ==
    [name |-> S(name), in |-> S("query"), required |-> Bool(required), type |-> Undefined,
     description |-> Undefined, schema |-> Undefined]

InjectEndpoint(method, path, summary, parameters, tags) ==
    [method |-> S(method),
     path |-> Str(path),
     summary |-> summary,
     description |-> Undefined,
     parameters |-> parameters,
     requestBody |-> Undefined,
     responses |-> Undefined,
     operationId |-> Undefined,
     tags |-> tags,
     requiresAuth |-> Bool(FALSE)]

EndpointKinds ==
    { InjectEndpoint("GET", <<"/", "users">>, Undefined, <<>>, Arr(<<TagA>>)),
      InjectEndpoint("POST", <<"/", "users">>, S("x"),
                     <<Param("id", TRUE), Param("q", FALSE)>>, Arr(<<TagB, TagA>>)),
      InjectEndpoint("GET", <<"/", "p">>, Undefined, <<>>, Undefined),
      InjectEndpoint("DELETE", <<"/", "users", "/", "{", "id", "}">>, S("x"),
                     <<Param("id", TRUE), Param("q", TRUE)>>, Arr(<<S("1")>>)),
      InjectEndpoint("GET", <<"/", "x">>, Undefined, <<>>, Arr(<<S("constructor")>>)) }

SmallEndpointLists == UNION {[1..n -> EndpointKinds] : n \in 0..MaxInjectEndpoints}

\* n endpoints GET /p1 .. /pn with the same summary
NumberedEndpoints(n, summary) ==
    [i \in 1..n |-> InjectEndpoint("GET", PathKey(i), summary, <<>>, Arr(<<TagA>>))]

\* a text of n words of a hundred characters
Filler(n) == [i \in 1..n |-> "word100"]

MkContext(name, description, endpoints) ==
    [id |-> Str(<<"ctx_", "0", "_", "k3j9x2m1q">>),
     name |-> name,
     baseUrl |-> UrlApiX,
     sourceUrl |-> Undefined,
     sourceType |-> S("openapi"),
     version |-> Undefined,
     description |-> description,
     endpoints |-> Arr(endpoints),
     lastUpdated |-> Num(0),
     createdAt |-> Num(0)]

\* a context whose formatted text has 1000 characters
ThousandContext ==
    MkContext(Str(Filler(6) \o [i \in 1..11 |-> "example"] \o <<"x">>), Undefined, <<>>)

BigSizes ==
    {ConverseTrimEndpoints, ConverseTrimEndpoints + 10, MAX_ENDPOINTS_TO_INJECT + 1}

InjectContexts ==
    {MkContext(S("api"), d, eps) : d \in {Undefined, S("x")}, eps \in SmallEndpointLists}
    \cup {MkContext(S("api"), Undefined, NumberedEndpoints(n, sm)) :
             n \in BigSizes, sm \in {Undefined, Str(Filler(2)), Str(Filler(3))}}
    \cup {ThousandContext}

InjectArguments == {Undefined, Num(0), Num(1), Num(10), Num(30), Num(2000)}

InitInject ==
    /\ pc = "start"
    /\ input \in InjectContexts
    /\ opts \in InjectArguments
    /\ out = NotCalled
    /\ out2 = NotCalled
    /\ clock = 0
    /\ storage = setActiveContext(TRUE,
                                  saveContext(TRUE, [present |-> FALSE, store |-> NoStore],
                                              input, 0),
                                  input.id, 0)
    /\ response = NoResponse
    /\ setResponse = NoSetResponse
    /\ Idle

FormatContextForAI ==
    /\ pc = "start"
    /\ pc' = "formatContextForAI"
    /\ out' = formatContextForAI(input)
    /\ UNCHANGED <<input, opts, out2, storeVars>>

EstimateContextTokens ==
    /\ pc = "start"
    /\ pc' = "estimateContextTokens"
    /\ out' = estimateContextTokens(input)
    /\ UNCHANGED <<input, opts, out2, storeVars>>

\* isContextTooLarge(input, opts), or isContextTooLarge(input) when opts is undefined
IsContextTooLarge ==
    /\ pc = "start"
    /\ pc' = "isContextTooLarge"
    /\ out' = isContextTooLarge(input, opts)
    /\ UNCHANGED <<input, opts, out2, storeVars>>

\* trimContextForInjection(input, opts), or trimContextForInjection(input)
TrimContextForInjection ==
    /\ pc = "start"
    /\ pc' = "trimContextForInjection"
    /\ out' = Return(trimContextForInjection(input, opts))
    /\ UNCHANGED <<input, opts, out2, storeVars>>

\* the injection step of POST /api/ai/converse.  The store is read through
\* window.localStorage: window is undefined under the Node server and defined
\* where the handler runs with a DOM global.
ConversePOST ==
    /\ pc = "start"
    /\ pc' = "converse"
    /\ \E win \in BOOLEAN :
          out' = ConverseContextPrompt(getActiveContext(win, storage, clock))
    /\ UNCHANGED <<input, opts, out2, storeVars>>

NextInject ==
    \/ FormatContextForAI
    \/ EstimateContextTokens
    \/ IsContextTooLarge
    \/ TrimContextForInjection
    \/ ConversePOST

SpecInject == InitInject /\ [][NextInject]_vars

-----------------------------------------------------------------------------
(* Claims checked under SpecInject *)

\* the number of characters of the formatted text of the context
FormattedLength(context) == TextLen(formatContextForAI(context).val.v)

\* n is the ceiling of len / 4
IsCeilingOfQuarter(n, len) == 4 * n >= len /\ 4 * (n - 1) < len

\* the ceiling of len / 4 is greater than maxTokens
QuarterExceeds(len, maxTokens) == len > 4 * maxTokens

MinOf2(a, b) == IF a < b THEN a ELSE b

\* C15: trimContextForInjection returns a context with the first
\* min(n, maxEndpoints) endpoints of the input in their order (maxEndpoints
\* 30 by default) and every other field as in the input, and the input
\* context, still the one the store holds, is not modified
C15_TrimKeepsFirstEndpoints ==
    (pc = "trimContextForInjection" /\ (opts = Undefined \/ opts.v >= 0))
    => LET n == Len(input.endpoints.v)
           k == IF opts = Undefined THEN 30 ELSE opts.v
       IN  /\ ~out.raised
           /\ out.val.endpoints = Arr(SubSeq(input.endpoints.v, 1, MinOf2(n, k)))
           /\ DOMAIN out.val = DOMAIN input
           /\ \A f \in DOMAIN input \ {"endpoints"} : out.val[f] = input[f]
           /\ input = StoredContexts[1]

\* a context of more than 30 endpoints was trimmed with the default maximum
C15_Witness ==
    /\ pc = "trimContextForInjection"
    /\ opts = Undefined
    /\ Len(input.endpoints.v) > 30
    /\ Len(out.val.endpoints.v) = 30

\* C16: the token estimate of a context is the ceiling of the length of its
\* formatted text divided by 4, and isContextTooLarge is true exactly when
\* the estimate is greater than maxTokens (2000 by default); a formatted text
\* of 1000 characters is too large for maxTokens = 10
C16_EstimateIsCeilingOfQuarter ==
    (pc \in {"estimateContextTokens", "isContextTooLarge"} /\ ~formatContextForAI(input).raised)
    => /\ ~out.raised
       /\ pc = "estimateContextTokens"
          => /\ out.val.t = "number"
             /\ IsCeilingOfQuarter(out.val.v, FormattedLength(input))
       /\ pc = "isContextTooLarge"
          => /\ out.val.t = "boolean"
             /\ out.val.v <=> QuarterExceeds(FormattedLength(input),
                                             IF opts = Undefined THEN 2000 ELSE opts.v)
             /\ (FormattedLength(input) = 1000 /\ opts = Num(10)) => out.val.v

\* the context of 1000 formatted characters was found too large for 10 tokens
C16_Witness ==
    /\ pc = "isContextTooLarge"
    /\ opts = Num(10)
    /\ FormattedLength(input) = 1000
    /\ out = Return(Bool(TRUE))

\* the endpoint lines of a formatted text from position i on, each as
\* <<group, line>>: the group is the text of the last header [group] before
\* the line, the line is the text between the bullet and the line end
RECURSIVE ListedFrom(_, _)
ListedFrom(a, i) ==
    LET bullets == {j \in i..Len(a) : a[j] = Bullet}
        b == FirstIn(bullets)
        lineEnd == FirstIn({j \in b..Len(a) : a[j] = "\n"})
        header == CHOOSE h \in 1..b : a[h] = "\n[" /\ \A k \in (h + 1)..b : a[k] # "\n["
        headerEnd == FirstIn({j \in header..b : a[j] = "]\n"})
    IN  IF bullets = {} THEN <<>>
        ELSE << <<SubSeq(a, header + 1, headerEnd - 1), SubSeq(a, b + 1, lineEnd - 1)>> >>
             \o ListedFrom(a, lineEnd + 1)

\* the group an endpoint belongs under: its first tag, or the fallback group
FirstTagOrOther(endpoint) ==
    IF endpoint.tags.t = "array" /\ Len(endpoint.tags.v) > 0
    THEN TemplateText(endpoint.tags.v[1]) ELSE <<"Other">>

\* <<group, line>> of the endpoints of a list that belong under a group
GroupLines(q, group) ==
    SelectSeq([k \in 1..Len(q) |-> <<FirstTagOrOther(q[k]), formatEndpointForAI(q[k])>>],
              LAMBDA gl : gl[1] = group)

\* C24: formatContextForAI lists the first min(50, n) endpoints of the context
\* and no others, one line each, every endpoint under the group of its first
\* tag or under the fallback group, in their original order within a group
C24_ListsFirstFiftyByFirstTag ==
    pc = "formatContextForAI"
    => /\ ~out.raised
       /\ LET shown == Prefix(input.endpoints.v, MAX_ENDPOINTS_TO_INJECT)
              listed == ListedFrom(out.val.v, 1)
          IN  /\ Len(listed) = Len(shown)
              /\ \A k \in 1..Len(shown) :
                    SelectSeq(listed, LAMBDA gl : gl[1] = FirstTagOrOther(shown[k]))
                       = GroupLines(shown, FirstTagOrOther(shown[k]))

-----------------------------------------------------------------------------
(* Specification SpecSave: sequences of saveContext calls in the browser,   *)
(* on an empty store and on a store one context short of its limit.         *)

\* saveContext calls per behaviour
MaxSaves == 3

SavedContext(id, name) == [MkContext(S(name), Undefined, <<>>) EXCEPT !.id = S(id)]

\* two ids, each with two contents
SaveContexts == {SavedContext(id, name) : id \in {"c1", "c2"}, name \in {"a", "b"}}

\* the contexts saved before, oldest first, each under an id of its own
EarlierContexts == [i \in 1..(MAX_CONTEXTS - 1) |-> SavedContext(ToString(i), "x")]

Reversed(q) == [i \in 1..Len(q) |-> q[Len(q) + 1 - i]]

\* the store after the contexts were saved in this order, each id once
StoreAfter(saved) ==
    [present |-> saved # <<>>,
     store |-> [contexts |-> Reversed(saved), activeContextId |-> Null, lastUpdated |-> 0]]

\* input is the context of the last call, out the contexts stored before it,
\* out2 the contexts saved so far, oldest first
InitSave ==
    /\ pc = "start"
    /\ input = Undefined
    /\ opts = Undefined
    /\ out = <<>>
    /\ out2 \in {<<>>, EarlierContexts}
    /\ storage = StoreAfter(out2)
    /\ clock = 0
    /\ response = NoResponse
    /\ setResponse = NoSetResponse
    /\ Idle

SaveContext ==
    /\ clock < MaxSaves
    /\ clock' = clock + 1
    /\ \E context \in SaveContexts :
          /\ input' = context
          /\ storage' = saveContext(TRUE, storage, context, clock')
          /\ out2' = Append(out2, context)
    /\ out' = StoredContexts
    /\ pc' = "saveContext"
    /\ UNCHANGED <<opts, response, setResponse, idleVars>>

NextSave == SaveContext

SpecSave == InitSave /\ [][NextSave]_vars

Ids(contexts) == [i \in 1..Len(contexts) |-> contexts[i].id]

\* the context without the time of its last update
Timeless(context) == [context EXCEPT !.lastUpdated = Null]

TimelessAll(contexts) == [i \in 1..Len(contexts) |-> Timeless(contexts[i])]

\* the context saved last under the id
LastSaved(id) ==
    out2[CHOOSE i \in 1..Len(out2) :
            /\ out2[i].id = id
            /\ \A j \in (i + 1)..Len(out2) : out2[j].id # id]

OnePerId == \A i, j \in 1..Len(StoredContexts) : i # j => StoredContexts[i].id # StoredContexts[j].id

\* the last call saved a context whose id was stored already
SavedStoredId == pc = "saveContext" /\ InSeq(input.id, Ids(out))

\* the last two calls saved the same context
SavedTwice == Len(out2) >= 2 /\ pc = "saveContext" /\ out2[Len(out2) - 1] = input /\ SavedStoredId

-----------------------------------------------------------------------------
(* Specification SpecExplain: POST of the explain route,                    *)
(* src/unnamed/part_005:208-311, step by step.  input is the request, opts  *)
(* the outcome of the AI call, out the answer and out2 what the handler     *)
(* stored in the response cache.                                            *)

\* OPENAI_API_KEY: set, not set, or the placeholder of the example file
ApiKeys == {"set", "unset", "your_openai_api_key_here"}

\* the request body: an InterpreterInput, a JSON object without request or
\* response, or no JSON at all
ExplainBodies == {"valid", "incomplete", "malformed"}

\* response.status and response.body of the interaction to explain
ExplainedStatuses == {200, 404, 500}
ExplainedBodies == {"object", "null", "text"}

\* the AI call: a completion with JSON content, with content that is not
\* JSON, with no content, or a rejection by timeout or API error
AIOutcomes == {"json", "text", "empty", "timeout", "apiError"}
AIFailures == {"empty", "timeout", "apiError"}

NoAnswer == [status |-> 0, kind |-> "", confidence |-> ""]
Answer(status, kind, confidence) == [status |-> status, kind |-> kind, confidence |-> confidence]

\* generateFallbackResponse(input): the fallback summary, or a TypeError
\* from Object.keys(response.body) when the body is null and the status is
\* below 400
generateFallbackResponse(request) ==
    IF request.status < 400 /\ request.responseBody = "null"
    THEN [raised |-> TRUE, confidence |-> ""]
    ELSE [raised |-> FALSE, confidence |-> "low"]

InitExplain ==
    /\ pc = "start"
    /\ input \in [key : ApiKeys, body : ExplainBodies, cached : BOOLEAN,
                  status : ExplainedStatuses, responseBody : ExplainedBodies,
                  bodyUsed : {FALSE}]
    /\ opts = "not called"
    /\ out = NoAnswer
    /\ out2 = "nothing"
    /\ StoreIdle

\* the check of the API key
ExplainCheckKey ==
    /\ pc = "start"
    /\ IF input.key = "set"
       THEN pc' = "request.json" /\ out' = out
       ELSE pc' = "responded" /\ out' = Answer(500, "error", "")
    /\ UNCHANGED <<input, opts, out2, storeVars>>

\* await request.json() and the validation of the input: the body of the
\* request is read, which can be done once
ExplainReadBody ==
    /\ pc = "request.json"
    /\ input' = [input EXCEPT !.bodyUsed = TRUE]
    /\ CASE input.body = "malformed" -> pc' = "catch" /\ out' = out
         [] input.body = "incomplete" -> pc' = "responded" /\ out' = Answer(400, "error", "")
         [] OTHER -> pc' = "cache" /\ out' = out
    /\ UNCHANGED <<opts, out2, storeVars>>

\* aiResponseCache.get(cacheKey)
ExplainCheckCache ==
    /\ pc = "cache"
    /\ IF input.cached
       THEN pc' = "responded" /\ out' = Answer(200, "cached", "any")
       ELSE pc' = "openai" /\ out' = out
    /\ UNCHANGED <<input, opts, out2, storeVars>>

\* await openai.chat.completions.create(...) and the handling of the
\* completion
ExplainCallAI ==
    /\ pc = "openai"
    /\ \E outcome \in AIOutcomes :
          /\ opts' = outcome
          /\ CASE outcome = "json" ->
                    /\ pc' = "responded"
                    /\ out' = Answer(200, "result", "any")
                    /\ out2' = "result"
               [] outcome = "text" /\ ~generateFallbackResponse(input).raised ->
                    /\ pc' = "responded"
                    /\ out' = Answer(200, "fallback", generateFallbackResponse(input).confidence)
                    /\ out2' = "fallback"
               [] OTHER ->
                    \* the call rejected, the content is empty, or the fallback raised
                    /\ pc' = "catch"
                    /\ out' = out
                    /\ out2' = out2
    /\ UNCHANGED <<input, storeVars>>

\* the catch block: generateFallbackResponse(await request.json()).  Reading
\* a body that was read before rejects with a TypeError, which leaves POST as
\* a rejection the framework answers with status 500.
ExplainCatch ==
    /\ pc = "catch"
    /\ IF input.bodyUsed \/ input.body # "valid" \/ generateFallbackResponse(input).raised
       THEN pc' = "rejected" /\ out' = Answer(500, "unhandled", "")
       ELSE pc' = "responded"
            /\ out' = Answer(200, "fallback", generateFallbackResponse(input).confidence)
    /\ input' = [input EXCEPT !.bodyUsed = TRUE]
    /\ UNCHANGED <<opts, out2, storeVars>>

NextExplain ==
    \/ ExplainCheckKey
    \/ ExplainReadBody
    \/ ExplainCheckCache
    \/ ExplainCallAI
    \/ ExplainCatch

SpecExplain == InitExplain /\ [][NextExplain]_vars

\* the handler has answered or has been left by an error
ExplainDone == pc \in {"responded", "rejected"}

\* C18: when the AI call of the explain route fails (timeout, API error or
\* empty completion) the route answers with status 200 and the fallback
\* summary with confidence low; no such failure gives another status
C18_AIFailureAnswers200 ==
    (ExplainDone /\ opts \in AIFailures)
    => /\ out.status = 200
       /\ out.kind = "fallback"
       /\ out.confidence = "low"

-----------------------------------------------------------------------------
(* Specification SpecRoutes: one request to the fetch route or to the       *)
(* upload route, with what the outbound fetch meets and the size in bytes   *)
(* of the content.                                                          *)

NoUpstream == [kind |-> "none", status |-> 0, contentType |-> "", body |-> Str(<<>>), size |-> 0]

FetchRequests ==
    {[route |-> "fetch", body |-> b, upstream |-> u, size |-> u.size] :
        b \in FetchBodies, u \in Upstreams}

UploadRequests ==
    {[route |-> "upload", body |-> b, upstream |-> NoUpstream, size |-> n] :
        b \in UploadBodies, n \in Sizes}

InitRoutes ==
    /\ pc = "start"
    /\ input \in FetchRequests \cup UploadRequests
    /\ opts = Undefined
    /\ out = NotCalled
    /\ out2 = NotCalled
    /\ StoreIdle

\* POST /api/context/fetch
PostFetch ==
    /\ pc = "start"
    /\ input.route = "fetch"
    /\ pc' = "answered"
    /\ response' = FetchPOST(input.body, input.upstream, clock, RandomPart)
    /\ UNCHANGED <<input, opts, out, out2, storage, clock, setResponse, idleVars>>

\* POST /api/context/upload
PostUpload ==
    /\ pc = "start"
    /\ input.route = "upload"
    /\ pc' = "answered"
    /\ response' = UploadPOST(input.body, input.size, clock, RandomPart)
    /\ UNCHANGED <<input, opts, out, out2, storage, clock, setResponse, idleVars>>

NextRoutes == PostFetch \/ PostUpload

SpecRoutes == InitRoutes /\ [][NextRoutes]_vars

\* the URL of a fetch request
RequestedUrl == ParseURL(Get(input.body, K("url")))

\* the host of the requested URL is an entry of the blocked list, or begins
\* with one
HostBlocked ==
    /\ input.route = "fetch"
    /\ RequestedUrl.ok
    /\ \E blocked \in blockedHosts :
          /\ Len(blocked) <= Len(RequestedUrl.hostname)
          /\ SubSeq(RequestedUrl.hostname, 1, Len(blocked)) = blocked

\* the content the route hands to parseApiDocumentation
HandedContent ==
    IF input.route = "upload" THEN Get(input.body, K("content"))
    ELSE IF input.upstream.contentType = "json"
            \/ IsYaml(Get(input.body, K("url")), input.upstream.contentType)
         THEN JSONParse(input.upstream.body).val
    ELSE input.upstream.body

Did(step) == InSeq(step, response.steps)

\* the route obtained the content and measured it
ContentMeasured ==
    IF input.route = "upload" THEN Truthy(Get(input.body, K("content")))
    ELSE /\ Did("fetch")
         /\ input.upstream.kind = "ok"
         /\ (input.upstream.contentType = "json"
             \/ IsYaml(Get(input.body, K("url")), input.upstream.contentType))
            => ~JSONParse(input.upstream.body).raised

C25_BlockedWitness ==
    /\ pc = "answered"
    /\ HostBlocked
    /\ response.status = 403

C25_TooLargeWitness ==
    /\ pc = "answered"
    /\ input.route = "fetch"
    /\ input.size > MaxContentBytes
    /\ response.status = 413
    /\ response.steps = <<"fetch">>

-----------------------------------------------------------------------------
(* ResponseCache, src/lib/ai-utils.ts:127-169.  The Map is the sequence of  *)
(* its entries in insertion order.                                          *)

DefaultMaxAge == 3600000

\* this.cache.get(key): the position of the entry, 0 when there is none
EntryOf(entries, key) ==
    IF \E i \in 1..Len(entries) : entries[i].key = key
    THEN CHOOSE i \in 1..Len(entries) : entries[i].key = key
    ELSE 0

\* this.cache.delete(key)
MapDelete(entries, key) == SelectSeq(entries, LAMBDA e : e.key # key)

\* this.cache.set(key, value): an existing key keeps its place in the order
MapSet(entries, key, value) ==
    IF EntryOf(entries, key) = 0 THEN Append(entries, value)
    ELSE [entries EXCEPT ![EntryOf(entries, key)] = value]

\* get(key): the entries left and the value returned
ResponseCacheGet(entries, maxAge, key, now) ==
    LET i == EntryOf(entries, key)
    IN  IF i = 0 THEN [entries |-> entries, result |-> Null]
        ELSE IF now - entries[i].timestamp > maxAge
             THEN [entries |-> MapDelete(entries, key), result |-> Null]
        ELSE [entries |-> entries, result |-> entries[i].result]

\* if (this.cache.size >= this.maxSize) delete the first key of the Map
Evicted(entries, maxSize) ==
    IF Len(entries) >= maxSize /\ entries # <<>> THEN Tail(entries) ELSE entries

\* set(key, result)
ResponseCacheSet(entries, maxSize, key, result, now) ==
    MapSet(Evicted(entries, maxSize), key,
           [key |-> key, result |-> result, timestamp |-> now])

-----------------------------------------------------------------------------
(* Specification SpecCache: get, set and clear on a ResponseCache made with *)
(* a maximum age and a maximum size, one clock tick apart.                  *)

MaxCacheSize == 2
MaxCacheSteps == 5

CacheKeys == {"k" \o ToString(i) : i \in 1..(MaxCacheSize + 1)}

InitCache ==
    /\ pc = "start"
    /\ input = Undefined
    /\ opts \in {[maxAge |-> a, maxSize |-> n] : a \in {2, DefaultMaxAge}, n \in 1..MaxCacheSize}
    /\ out = NotCalled
    /\ out2 = NotCalled
    /\ StoreIdle

\* the key was got or set with success: it becomes the most recently used
Touched(keys, key) == Append(SelectSeq(keys, LAMBDA k : k # key), key)

\* the keys of the history that still have an entry
StillStored(keys, entries) == SelectSeq(keys, LAMBDA k : EntryOf(entries, k) # 0)

CacheGet ==
    /\ clock < MaxCacheSteps
    /\ clock' = clock + 1
    /\ \E key \in CacheKeys :
          LET got == ResponseCacheGet(cache, opts.maxAge, key, clock')
          IN  /\ cache' = got.entries
              /\ out' = Return(got.result)
              /\ used' = IF got.result # Null THEN Touched(used, key)
                         ELSE StillStored(used, got.entries)
    /\ pc' = "get"
    /\ UNCHANGED <<input, opts, out2, storage, response, setResponse, session, panel, appended>>

CacheSet ==
    /\ clock < MaxCacheSteps
    /\ clock' = clock + 1
    /\ \E key \in CacheKeys :
          /\ cache' = ResponseCacheSet(cache, opts.maxSize, key, S("result"), clock')
          /\ used' = Touched(StillStored(used, cache'), key)
    /\ pc' = "set"
    /\ out' = NotCalled
    /\ UNCHANGED <<input, opts, out2, storage, response, setResponse, session, panel, appended>>

CacheClear ==
    /\ clock < MaxCacheSteps
    /\ clock' = clock + 1
    /\ cache' = <<>>
    /\ used' = <<>>
    /\ pc' = "clear"
    /\ out' = NotCalled
    /\ UNCHANGED <<input, opts, out2, storage, response, setResponse, session, panel, appended>>

NextCache == CacheGet \/ CacheSet \/ CacheClear

SpecCache == InitCache /\ [][NextCache]_vars

KeysOf(entries) == {entries[i].key : i \in 1..Len(entries)}

\* C26: the cache never holds more than maxSize entries, and an entry that a
\* set removes is the one whose last successful get or set is the oldest
C26_EvictsLeastRecentlyUsed ==
    /\ [](Len(cache) <= opts.maxSize)
    /\ [][pc' = "set" => \A key \in KeysOf(cache) \ KeysOf(cache') : key = Head(used)]_vars

\* the size bound alone
C26_AtMostMaxSize == Len(cache) <= opts.maxSize

\* a full cache whose oldest entry was read after the others were set
C26_ReadOldestWhenFull ==
    /\ pc = "get"
    /\ out.val # Null
    /\ Len(cache) = opts.maxSize
    /\ Len(cache) > 1
    /\ cache[1].key = used[Len(used)]

-----------------------------------------------------------------------------
(* Specification SpecActive: saveContext, importContext, deleteContext,     *)
(* setActiveContext and clearAllContexts in the browser, on an empty store  *)
(* and on a store one context short of its limit.                           *)

\* store operations per behaviour
MaxActiveSteps == 3

\* the context saved first, which is the last of the list
OldestId == S("1")

ActiveIds == {S("c1"), S("c2"), OldestId, S("ctx_0_none")}

ImportedText == Str(JSONStringify(ExportedContext(S("x"), UrlApiX, Arr(<<>>))))

InitActive ==
    /\ pc = "start"
    /\ input = Undefined
    /\ opts = Undefined
    /\ out = NotCalled
    /\ out2 = NotCalled
    /\ storage \in {StoreAfter(<<>>), StoreAfter(EarlierContexts)}
    /\ clock = 0
    /\ response = NoResponse
    /\ setResponse = NoSetResponse
    /\ Idle

\* a store operation at time clock + 1
ActiveTick == clock < MaxActiveSteps /\ clock' = clock + 1

ActiveSave ==
    /\ ActiveTick
    /\ \E id \in {"c1", "c2"} :
          /\ input' = S(id)
          /\ storage' = saveContext(TRUE, storage, SavedContext(id, "a"), clock')
    /\ pc' = "saveContext"
    /\ UNCHANGED <<opts, out, out2, response, setResponse, idleVars>>

ActiveImport ==
    /\ ActiveTick
    /\ storage' = importContext(TRUE, storage, ImportedText, clock', RandomPart).ls
    /\ input' = Undefined
    /\ pc' = "importContext"
    /\ UNCHANGED <<opts, out, out2, response, setResponse, idleVars>>

ActiveDelete ==
    /\ ActiveTick
    /\ \E contextId \in ActiveIds :
          /\ input' = contextId
          /\ storage' = deleteContext(TRUE, storage, contextId, clock')
    /\ pc' = "deleteContext"
    /\ UNCHANGED <<opts, out, out2, response, setResponse, idleVars>>

ActiveSet ==
    /\ ActiveTick
    /\ \E contextId \in ActiveIds \cup {Null} :
          /\ input' = contextId
          /\ storage' = setActiveContext(TRUE, storage, contextId, clock')
    /\ pc' = "setActiveContext"
    /\ UNCHANGED <<opts, out, out2, response, setResponse, idleVars>>

ActiveClear ==
    /\ ActiveTick
    /\ storage' = clearAllContexts(TRUE, storage, clock')
    /\ input' = Undefined
    /\ pc' = "clearAllContexts"
    /\ UNCHANGED <<opts, out, out2, response, setResponse, idleVars>>

NextActive == ActiveSave \/ ActiveImport \/ ActiveDelete \/ ActiveSet \/ ActiveClear

SpecActive == InitActive /\ [][NextActive]_vars

IsStored(id) == \E i \in 1..Len(StoredContexts) : StoredContexts[i].id = id

\* C27: after any sequence of saveContext, importContext, deleteContext,
\* setActiveContext and clearAllContexts the active id is null or the id of
\* a stored context, and setActiveContext with an id that is not stored
\* leaves the active id null
C27_ActiveIsStoredOrNull ==
    /\ storage.store.activeContextId = Null \/ IsStored(storage.store.activeContextId)
    /\ (pc = "setActiveContext" /\ ~IsStored(input)) => storage.store.activeContextId = Null

\* the part about setActiveContext alone
C27_SetActiveOfUnknownIsNull ==
    (pc = "setActiveContext" /\ ~IsStored(input)) => storage.store.activeContextId = Null

(***************************************************************************)
(* ConversationPanel: src/components/TypeGeneratorView.tsx:639-1080, with  *)
(* addMessageToSession (src/unnamed/part_006:74-86) and updateSession      *)
(* (src/hooks/useConversationSession.ts:81-84).                            *)
(*                                                                         *)
(* session.state is the message list of the session React holds,           *)
(* session.localStorage the persisted one, session.conversationCache the   *)
(* one addMessageToSession caches.  An async handler reads `session` from  *)
(* the render in which it was called; panel.sending is the updatedSession  *)
(* a pending sendMessage holds across its await, panel.executing the       *)
(* session a pending executeRequestDirectly holds across its await.        *)
(* appended collects every message handed to addMessageToSession.          *)
(***************************************************************************)
MaxMessages == 7

ConversationMessage(id, role, content) == [id |-> id, role |-> role, content |-> content]

\* generateConversationId: an id no earlier message carries
generateConversationId == Cardinality(appended) + 1

\* messages: [...session.messages, message]
addMessageToSession(messages, message) == Append(messages, message)

\* conversationCache.set(updatedSession); setSession(updatedSession); persistSession(updatedSession)
updateSession(messages) ==
    [state |-> messages, localStorage |-> messages, conversationCache |-> messages]

\* messages the pending calls will still append
PendingAppends ==
    (IF panel.isGenerating THEN 1 ELSE 0) + (IF panel.isExecuting THEN 1 ELSE 0)

conversationRest == <<input, opts, out, out2, storage, clock, response, setResponse, cache, used>>

InitConversation ==
    /\ pc = "init"
    /\ input = Undefined
    /\ opts = Undefined
    /\ out = NotCalled
    /\ out2 = NotCalled
    /\ StoreIdle

\* sendMessage up to its await: lines 668-687
SendMessage ==
    /\ ~panel.isGenerating
    /\ ~panel.showExecuteDialog
    /\ Cardinality(appended) + PendingAppends + 2 <= MaxMessages
    /\ LET userMessage == ConversationMessage(generateConversationId, "user", "message")
           updatedSession == addMessageToSession(session.state, userMessage)
       IN  /\ session' = updateSession(updatedSession)
           /\ appended' = appended \cup {userMessage}
           /\ panel' = [panel EXCEPT !.isGenerating = TRUE, !.sending = updatedSession]
    /\ pc' = "sendMessage"
    /\ UNCHANGED conversationRest

\* sendMessage after its await, the converse route answered: lines 707-725, 750
ConverseAnswered ==
    /\ panel.isGenerating
    /\ LET assistantMessage == ConversationMessage(generateConversationId, "assistant", "explanation")
           finalSession == addMessageToSession(panel.sending, assistantMessage)
       IN  /\ session' = updateSession(finalSession)
           /\ appended' = appended \cup {assistantMessage}
           /\ panel' = [panel EXCEPT !.isGenerating = FALSE, !.sending = <<>>,
                                     !.currentPreview = TRUE]
    /\ pc' = "converseAnswered"
    /\ UNCHANGED conversationRest

\* sendMessage after its await, the call failed: lines 733-750
ConverseFailed ==
    /\ panel.isGenerating
    /\ LET errorMessage == ConversationMessage(generateConversationId, "assistant", "trouble")
           errorSession == addMessageToSession(panel.sending, errorMessage)
       IN  /\ session' = updateSession(errorSession)
           /\ appended' = appended \cup {errorMessage}
           /\ panel' = [panel EXCEPT !.isGenerating = FALSE, !.sending = <<>>]
    /\ pc' = "converseFailed"
    /\ UNCHANGED conversationRest

\* executeRequest, behind the Run Request button (disabled={isGenerating || isExecuting})
executeRequest ==
    /\ ~panel.isGenerating
    /\ ~panel.isExecuting
    /\ ~panel.showExecuteDialog
    /\ panel.currentPreview
    /\ panel' = [panel EXCEPT !.showExecuteDialog = TRUE]
    /\ pc' = "executeRequest"
    /\ UNCHANGED <<conversationRest, session, appended>>

\* the Cancel button of the dialog
CancelExecute ==
    /\ panel.showExecuteDialog
    /\ panel' = [panel EXCEPT !.showExecuteDialog = FALSE]
    /\ pc' = "cancelExecute"
    /\ UNCHANGED <<conversationRest, session, appended>>

\* editRequest and discardRequest, buttons disabled={isGenerating}
discardRequest ==
    /\ ~panel.isGenerating
    /\ ~panel.showExecuteDialog
    /\ panel.currentPreview
    /\ panel' = [panel EXCEPT !.currentPreview = FALSE]
    /\ pc' = "discardRequest"
    /\ UNCHANGED <<conversationRest, session, appended>>

\* executeRequestDirectly up to its await: lines 761-777
executeRequestDirectly ==
    /\ panel.showExecuteDialog
    /\ panel.currentPreview
    /\ Cardinality(appended) + PendingAppends + 1 <= MaxMessages
    /\ panel' = [panel EXCEPT !.isExecuting = TRUE, !.showExecuteDialog = FALSE,
                              !.executing = session.state]
    /\ pc' = "executeRequestDirectly"
    /\ UNCHANGED <<conversationRest, session, appended>>

\* executeRequestDirectly after its await, the proxy answered: lines 785-809, 828
RequestExecuted ==
    /\ panel.isExecuting
    /\ LET resultMessage == ConversationMessage(generateConversationId, "assistant", "executed")
           updatedSession == addMessageToSession(panel.executing, resultMessage)
       IN  /\ session' = updateSession(updatedSession)
           /\ appended' = appended \cup {resultMessage}
           /\ panel' = [panel EXCEPT !.isExecuting = FALSE, !.executing = <<>>,
                                     !.currentPreview = FALSE]
    /\ pc' = "requestExecuted"
    /\ UNCHANGED conversationRest

\* executeRequestDirectly after its await, the call failed: lines 811-828
RequestFailed ==
    /\ panel.isExecuting
    /\ LET errorMessage == ConversationMessage(generateConversationId, "assistant", "failed")
           errorSession == addMessageToSession(panel.executing, errorMessage)
       IN  /\ session' = updateSession(errorSession)
           /\ appended' = appended \cup {errorMessage}
           /\ panel' = [panel EXCEPT !.isExecuting = FALSE, !.executing = <<>>]
    /\ pc' = "requestFailed"
    /\ UNCHANGED conversationRest

NextConversation ==
    \/ SendMessage
    \/ ConverseAnswered
    \/ ConverseFailed
    \/ executeRequest
    \/ CancelExecute
    \/ discardRequest
    \/ executeRequestDirectly
    \/ RequestExecuted
    \/ RequestFailed

SpecConversation == InitConversation /\ [][NextConversation]_vars

InSession(message) == \E i \in 1..Len(session.state) : session.state[i] = message

NothingPending == ~panel.isGenerating /\ ~panel.isExecuting

\* C29: once no sendMessage and no executeRequestDirectly is pending, every
\* message that was passed to addMessageToSession is in the session's
\* message list.
C29_NoAppendedMessageIsLost ==
    NothingPending => \A message \in appended : InSession(message)

(***************************************************************************)
(* The generate-types route: src/app/api/ai/generate-types/route.ts, with  *)
(* validateTypeScriptSyntax and validatePythonSyntax                       *)
(* (src/lib/ai-utils.ts:259-319).                                          *)
(*                                                                         *)
(* Generated code is a sequence of lines.  input holds the result parsed   *)
(* from the model's answer, cache the entries of typeGenerationCache, out  *)
(* the body the route answers with.                                        *)
(***************************************************************************)
MaxCodeLines == 2
TypeCacheMaxAge == 7200000
TypeCacheMaxSize == 50

CodeLines ==
    {"", "{", "}", "(", ")", "interface A", "class A:", "@dataclass",
     "from dataclasses import dataclass"}

\* line.includes(word), for the words the validators look for
LineIncludes(line, word) ==
    CASE word = "interface" -> line = "interface A"
      [] word = "class" -> line \in {"class A:", "@dataclass", "from dataclasses import dataclass"}
      [] word = "class " -> line = "class A:"
      [] word = "@dataclass" -> line = "@dataclass"
      [] word = "from dataclasses import dataclass" -> line = "from dataclasses import dataclass"
      [] OTHER -> FALSE

CodeIncludes(code, word) == \E i \in 1..Len(code) : LineIncludes(code[i], word)

\* (code.match(/x/g) || []).length
CountLines(code, line) == Cardinality({i \in 1..Len(code) : code[i] = line})

\* !code.trim()
CodeIsBlank(code) == \A i \in 1..Len(code) : code[i] = ""

Validation(errors) == [isValid |-> errors = <<>>, errors |-> errors]

validateTypeScriptSyntax(code) ==
    IF CodeIsBlank(code) THEN [isValid |-> FALSE, errors |-> <<"Generated code is empty">>]
    ELSE Validation(
        (IF CountLines(code, "{") # CountLines(code, "}")
         THEN <<"Mismatched braces in generated code">> ELSE <<>>)
        \o (IF CountLines(code, "(") # CountLines(code, ")")
            THEN <<"Mismatched parentheses in generated code">> ELSE <<>>)
        \o (IF /\ ~CodeIncludes(code, "interface") /\ ~CodeIncludes(code, "type")
               /\ ~CodeIncludes(code, "const") /\ ~CodeIncludes(code, "class")
            THEN <<"Generated code does not contain valid TypeScript type definitions">>
            ELSE <<>>))

validatePythonSyntax(code) ==
    IF CodeIsBlank(code) THEN [isValid |-> FALSE, errors |-> <<"Generated code is empty">>]
    ELSE Validation(
        (IF /\ CodeIncludes(code, "@dataclass")
            /\ ~CodeIncludes(code, "from dataclasses import dataclass")
         THEN <<"Missing dataclass import">> ELSE <<>>)
        \o (IF ~CodeIncludes(code, "class ")
            THEN <<"Generated code does not contain a class definition">> ELSE <<>>))

\* lines 260-265
SyntaxValidation(result) ==
    IF result.language = "typescript" THEN validateTypeScriptSyntax(result.code)
    ELSE validatePythonSyntax(result.code)

\* errors.map(error => `Validation warning: ${error}`)
ValidationWarnings(errors) ==
    [i \in 1..Len(errors) |-> <<"Validation warning: ", errors[i]>>]

\* lines 270-271: two tests of result.confidence, one after the other
LoweredConfidence(confidence) ==
    LET first == IF confidence = "high" THEN "medium" ELSE confidence
    IN  IF first = "medium" THEN "low" ELSE first

\* lines 267-272
CheckedResult(result) ==
    LET validationResult == SyntaxValidation(result)
    IN  IF ~validationResult.isValid
        THEN [result EXCEPT !.notes = @ \o ValidationWarnings(validationResult.errors),
                            !.confidence = LoweredConfidence(@)]
        ELSE result

CodesUpTo(n) == UNION {[1..k -> CodeLines] : k \in 0..n}

GeneratedResults ==
    [language : {"typescript", "python"}, code : CodesUpTo(MaxCodeLines),
     notes : {<<>>, <<<<"Inferred from one sample">>>>},
     confidence : {"low", "medium", "high"}, cached : {FALSE}]

typesRest == <<opts, out2, storage, clock, response, setResponse, used, session, panel, appended>>

InitTypes ==
    /\ pc = "init"
    /\ input \in GeneratedResults
    /\ opts = Undefined
    /\ out = NotCalled
    /\ out2 = NotCalled
    /\ StoreIdle

\* POST when the cache has no entry for the request: lines 152-278
TypesGenerated ==
    /\ ResponseCacheGet(cache, TypeCacheMaxAge, "cacheKey", clock).result = Null
    /\ LET result == CheckedResult(input)
       IN  /\ cache' = ResponseCacheSet(cache, TypeCacheMaxSize, "cacheKey", result, clock)
           /\ out' = Return(result)
    /\ pc' = "generated"
    /\ UNCHANGED <<input, typesRest>>

\* POST when the cache has an entry for the request: lines 152-200
TypesCached ==
    /\ pc = "generated"
    /\ LET got == ResponseCacheGet(cache, TypeCacheMaxAge, "cacheKey", clock)
       IN  /\ got.result # Null
           /\ cache' = got.entries
           /\ out' = Return([got.result EXCEPT !.cached = TRUE])
    /\ pc' = "cached"
    /\ UNCHANGED <<input, typesRest>>

NextTypes ==
    \/ TypesGenerated
    \/ TypesCached

SpecTypes == InitTypes /\ [][NextTypes]_vars

OneLevelLower(confidence) ==
    CASE confidence = "high" -> "medium"
      [] confidence = "medium" -> "low"
      [] OTHER -> "low"

ValidationFailed == ~SyntaxValidation(input).isValid

\* C30: when the syntax validation of the generated code fails, the answer's
\* confidence is one level below the generated one (low stays low) and its
\* notes are the generated notes followed by one 'Validation warning' note per
\* validation error; when it passes, confidence and notes are the generated
\* ones.
C30_LoweredByOneLevel ==
    pc = "generated"
    => IF ValidationFailed
       THEN /\ out.val.confidence = OneLevelLower(input.confidence)
            /\ Len(out.val.notes) = Len(input.notes) + Len(SyntaxValidation(input).errors)
            /\ \A i \in 1..Len(SyntaxValidation(input).errors) :
                   out.val.notes[Len(input.notes) + i]
                       = <<"Validation warning: ", SyntaxValidation(input).errors[i]>>
            /\ SubSeq(out.val.notes, 1, Len(input.notes)) = input.notes
       ELSE /\ out.val.confidence = input.confidence
            /\ out.val.notes = input.notes

====
